---- MODULE Spec2Model ----
(***************************************************************************)
(* Image-placement resolution of the Hebrew Bible e-reader generators.     *)
(*                                                                         *)
(*   - the placement normalizer        (fix_placements.py, main)           *)
(*   - the uniqueness-aware selector   (generate_tanakh.py, TanakhGenerator)*)
(*                                                                         *)
(* Encoding of Python values:                                              *)
(*   - a reference string "<book> <n>" is the record RefStr(book, n); a    *)
(*     string that rsplit(" ", 1) / int() cannot take apart has wf = FALSE *)
(*   - None is the empty tuple for parse results and file names ("" for a  *)
(*     missing file name), and 0 for chapter numbers and chapter counts    *)
(*     (both are tested by truthiness or against None in the code, and no  *)
(*     chapter or count of the registry is 0)                              *)
(*   - an insertion-ordered dict is a sequence of its items                *)
(***************************************************************************)
EXTENDS Integers, Sequences, FiniteSets, TLC

\* ------------------------------------------------------------------------
\* Bounds of the explored inputs
\* ------------------------------------------------------------------------
MaxEntries == 3
MaxChapter == 3
MaxRuns == 2
MaxImages == 3
MaxPlaced == 2
MaxRomanLen == 3
MaxTokens == 3
MaxFiles == 6
MaxItems == 2
MaxNoText == 1

VARIABLES
    file,       \* chagall_placement_map.json: sequence of [fn, refs]
    input,      \* the placement map before the first normalizer run
    prev,       \* the placement map read by the latest normalizer run
    changes,    \* change log of the latest normalizer run
    runs        \* number of completed normalizer runs

normVars == <<file, input, prev, changes, runs>>

VARIABLES
    \* TanakhGenerator attributes set by __init__ and constant afterwards
    explicit_enabled,           \* explicit_placements.json was loaded
    explicit_book_intro,        \* sequence of [book, filename]
    explicit_chapter_map,       \* sequence of [book, chap, filename]
    all_chagall_images,         \* sequence of [filename, book], config order
    chagall_chapter_map,        \* sequence of [book, chap, fn], file order
    balanced_chapter_map,       \* sequence of [book, chap, fn]
    book_intro_overrides,       \* sequence of [book, filename]
    test_mode,                  \* generate(..., test_mode)
    \* TanakhGenerator attributes changed by a run
    image_usages,               \* sequence of [filename, kind, book, chapter]
    used_images,                \* set of file names
    source_book_usage_counts,   \* function source book -> count
    \* position of generate
    pc,                         \* "idle", "run", "error", "written"
    book_idx,                   \* index into books_to_process
    chapter_num,                \* 0: the intro page is next; else the chapter
    err,                        \* the exception that ended the run
    \* observations
    selected,                   \* the images returned so far, in call order
    last,                       \* the latest call and what it returned
    \* the surroundings of the run
    replay                      \* [mode, no_text, on_disk, run, first, log]

cfgVars == <<explicit_enabled, explicit_book_intro, explicit_chapter_map,
             all_chagall_images, chagall_chapter_map, balanced_chapter_map,
             book_intro_overrides, test_mode>>

genVars == <<cfgVars, image_usages, used_images, source_book_usage_counts,
             pc, book_idx, chapter_num, err, selected, last, replay>>

VARIABLES
    call        \* the latest call of a pure function: [fn, args, ret]

VARIABLES
    fixer,      \* a fix_placements process: [pc, data, own]
    assigner,   \* a suggest_placements process: [pc, placement, idx, own]
    events      \* the reads and writes of the placement file, in order

toolVars == <<fixer, assigner, events>>

vars == <<normVars, genVars, call, toolVars>>

\* ------------------------------------------------------------------------
\* Generic helpers
\* ------------------------------------------------------------------------
None == <<>>

Range(s) == {s[i] : i \in DOMAIN s}

SetMax(S) == CHOOSE x \in S : \A y \in S : y <= x

SetMin(S) == CHOOSE x \in S : \A y \in S : x <= y

RECURSIVE SeqsUpTo(_, _)
SeqsUpTo(S, n) ==
    IF n = 0 THEN {<<>>}
    ELSE LET shorter == SeqsUpTo(S, n - 1)
         IN  shorter \cup {Append(s, x) : s \in {t \in shorter : Len(t) = n - 1}, x \in S}

\* ------------------------------------------------------------------------
\* fix_placements.py
\* ------------------------------------------------------------------------
BOOK_CHAPTER_COUNTS ==
    [b \in {"Genesis", "Exodus", "Leviticus", "Numbers", "Deuteronomy",
            "Joshua", "Judges", "I_Samuel", "II_Samuel", "I_Kings", "II_Kings",
            "Isaiah", "Jeremiah", "Ezekiel", "Hosea", "Joel", "Amos", "Obadiah",
            "Jonah", "Micah", "Nahum", "Habakkuk", "Zephaniah", "Haggai",
            "Zechariah", "Malachi", "Psalms", "Proverbs", "Job", "Song_of_Songs",
            "Ruth", "Lamentations", "Ecclesiastes", "Esther", "Daniel", "Ezra",
            "Nehemiah", "I_Chronicles", "II_Chronicles"} |->
        CASE b = "Genesis" -> 50 [] b = "Exodus" -> 40 [] b = "Leviticus" -> 27
          [] b = "Numbers" -> 36 [] b = "Deuteronomy" -> 34 [] b = "Joshua" -> 24
          [] b = "Judges" -> 21 [] b = "I_Samuel" -> 31 [] b = "II_Samuel" -> 24
          [] b = "I_Kings" -> 22 [] b = "II_Kings" -> 25 [] b = "Isaiah" -> 66
          [] b = "Jeremiah" -> 52 [] b = "Ezekiel" -> 48 [] b = "Hosea" -> 14
          [] b = "Joel" -> 4 [] b = "Amos" -> 9 [] b = "Obadiah" -> 1
          [] b = "Jonah" -> 4 [] b = "Micah" -> 7 [] b = "Nahum" -> 3
          [] b = "Habakkuk" -> 3 [] b = "Zephaniah" -> 3 [] b = "Haggai" -> 2
          [] b = "Zechariah" -> 14 [] b = "Malachi" -> 3 [] b = "Psalms" -> 150
          [] b = "Proverbs" -> 31 [] b = "Job" -> 42 [] b = "Song_of_Songs" -> 8
          [] b = "Ruth" -> 4 [] b = "Lamentations" -> 5 [] b = "Ecclesiastes" -> 12
          [] b = "Esther" -> 10 [] b = "Daniel" -> 12 [] b = "Ezra" -> 10
          [] b = "Nehemiah" -> 13 [] b = "I_Chronicles" -> 29
          [] b = "II_Chronicles" -> 36]

\* BOOK_CHAPTER_COUNTS.get(book): 0 stands for None
ChapterCount(book) ==
    IF book \in DOMAIN BOOK_CHAPTER_COUNTS THEN BOOK_CHAPTER_COUNTS[book] ELSE 0

\* the string f"{book} {chap}"
RefStr(book, chap) == [book |-> book, chap |-> chap, wf |-> TRUE]

\* a string without a space, or whose last word is not an integer
Malformed == [book |-> "untitled", chap |-> 0, wf |-> FALSE]

parse_ref(ref) == IF ref.wf THEN <<ref.book, ref.chap>> ELSE None

RECURSIVE ScanDown(_, _)
ScanDown(cand, used) ==
    IF cand < 1 THEN 0
    ELSE IF cand \notin used THEN cand
    ELSE ScanDown(cand - 1, used)

RECURSIVE ScanUp(_, _, _)
ScanUp(cand, maxc, used) ==
    IF cand > maxc THEN 0
    ELSE IF cand \notin used THEN cand
    ELSE ScanUp(cand + 1, maxc, used)

\* highest_free searching upward from chapter 1
lowest_free(book, used) ==
    LET maxc == ChapterCount(book)
    IN  IF maxc = 0 THEN 0 ELSE ScanUp(1, maxc, used)

highest_free(book, used) ==
    LET maxc == ChapterCount(book)
    IN  IF maxc = 0 THEN 0 ELSE ScanDown(maxc, used)

\* SetItem that removes the key and inserts it again at the end
SetItemReinsert(data, fn, refs) ==
    Append(SelectSeq(data, LAMBDA e : e.fn # fn), [fn |-> fn, refs |-> refs])

\* data[fn] = refs on an insertion-ordered dict
SetItem(data, fn, refs) ==
    IF \E i \in DOMAIN data : data[i].fn = fn
    THEN [i \in DOMAIN data |->
            IF data[i].fn = fn THEN [fn |-> fn, refs |-> refs] ELSE data[i]]
    ELSE Append(data, [fn |-> fn, refs |-> refs])

\* ChangeLine with the two chapters exchanged
ChangeLineSwapped(reason, fn, book, old, new) ==
    [reason |-> reason, fn |-> fn, book |-> book, old |-> new, new |-> old]

\* the line f"{reason}: {fn}: {book} {old} -> {new}" (lines 112, 138)
ChangeLine(reason, fn, book, old, new) ==
    [reason |-> reason, fn |-> fn, book |-> book, old |-> old, new |-> new]

\* UsedInRange without the test pr[0] == book of line 106
UsedInRangeAnyBook(data, book, maxc) ==
    {data[i].refs[1].chap : i \in
        {j \in DOMAIN data :
            /\ data[j].refs # <<>>
            /\ parse_ref(data[j].refs[1]) # None
            /\ 1 <= parse_ref(data[j].refs[1])[2]
            /\ parse_ref(data[j].refs[1])[2] <= maxc}}

\* the in-range chapters of the book held by any entry of data (lines 103-108)
UsedInRange(data, book, maxc) ==
    {data[i].refs[1].chap : i \in
        {j \in DOMAIN data :
            /\ data[j].refs # <<>>
            /\ parse_ref(data[j].refs[1]) # None
            /\ parse_ref(data[j].refs[1])[1] = book
            /\ 1 <= parse_ref(data[j].refs[1])[2]
            /\ parse_ref(data[j].refs[1])[2] <= maxc}}

\* one iteration of the first loop of main (lines 90-114); per_book is the
\* dict of dicts of lists, flattened to its appends in order
FixRangeStep(st, i) ==
    LET fn   == st.data[i].fn
        refs == st.data[i].refs
    IN  IF refs = <<>> THEN st
        ELSE LET parsed == parse_ref(refs[1])
             IN  IF parsed = None THEN st
                 ELSE LET book == parsed[1]
                          chap == parsed[2]
                          maxc == ChapterCount(book)
                      IN  IF maxc = 0 THEN st
                          ELSE IF chap < 1 \/ chap > maxc
                          THEN LET used == UsedInRange(st.data, book, maxc)
                                   dest == highest_free(book, used)
                               IN  IF dest # 0
                                   THEN [data |-> SetItem(st.data, fn, <<RefStr(book, dest)>>),
                                         per_book |-> Append(st.per_book,
                                                        [book |-> book, chap |-> dest, fn |-> fn]),
                                         changes |-> Append(st.changes,
                                                        ChangeLine("fix-range", fn, book, chap, dest))]
                                   ELSE [st EXCEPT !.per_book =
                                            Append(@, [book |-> book, chap |-> chap, fn |-> fn])]
                          ELSE [st EXCEPT !.per_book =
                                    Append(@, [book |-> book, chap |-> chap, fn |-> fn])]

RECURSIVE FixRangeLoop(_, _)
FixRangeLoop(st, i) ==
    IF i > Len(st.data) THEN st ELSE FixRangeLoop(FixRangeStep(st, i), i + 1)

\* per_book.items(): the books in order of first insertion
RECURSIVE BooksInOrder(_)
BooksInOrder(per_book) ==
    IF per_book = <<>> THEN <<>>
    ELSE LET init == BooksInOrder(SubSeq(per_book, 1, Len(per_book) - 1))
             b    == per_book[Len(per_book)].book
         IN  IF b \in Range(init) THEN init ELSE Append(init, b)

\* chmap[chap] of a book: the file names appended under that chapter, in order
RECURSIVE FnsOf(_, _, _)
FnsOf(per_book, book, chap) ==
    IF per_book = <<>> THEN <<>>
    ELSE LET init == FnsOf(SubSeq(per_book, 1, Len(per_book) - 1), book, chap)
             t    == per_book[Len(per_book)]
         IN  IF t.book = book /\ t.chap = chap THEN Append(init, t.fn) ELSE init

ChapterKeys(per_book, book) ==
    {per_book[i].chap : i \in {j \in DOMAIN per_book : per_book[j].book = book}}

\* MoveDup without the "if dest == chap: continue" of line 134
MoveDupNoSkip(st, book, maxc, chap, fn) ==
    LET free == highest_free(book, st.used)
        dest == IF free = 0 THEN maxc ELSE free
    IN  [data |-> SetItem(st.data, fn, <<RefStr(book, dest)>>),
         used |-> st.used \cup {dest},
         changes |-> Append(st.changes,
                            ChangeLine("move-dup", fn, book, chap, dest))]

\* MoveDup that drops the entry when no chapter is free instead of pinning it
MoveDupDropOverflow(st, book, maxc, chap, fn) ==
    LET free == highest_free(book, st.used)
    IN  IF free = 0
        THEN [st EXCEPT !.data = SelectSeq(@, LAMBDA e : e.fn # fn)]
        ELSE IF free = chap THEN st
        ELSE [data |-> SetItem(st.data, fn, <<RefStr(book, free)>>),
              used |-> st.used \cup {free},
              changes |-> Append(st.changes,
                                 ChangeLine("move-dup", fn, book, chap, free))]

\* MoveDup without the used.add(dest) of line 137
MoveDupStaleUsed(st, book, maxc, chap, fn) ==
    LET free == highest_free(book, st.used)
        dest == IF free = 0 THEN maxc ELSE free
    IN  IF dest = chap THEN st
        ELSE [data |-> SetItem(st.data, fn, <<RefStr(book, dest)>>),
              used |-> st.used,
              changes |-> Append(st.changes,
                                 ChangeLine("move-dup", fn, book, chap, dest))]

\* body of the loop over fns[1:] (lines 129-138); st = [data, used, changes]
MoveDup(st, book, maxc, chap, fn) ==
    LET free == highest_free(book, st.used)
        dest == IF free = 0 THEN maxc ELSE free
    IN  IF dest = chap THEN st
        ELSE [data |-> SetItem(st.data, fn, <<RefStr(book, dest)>>),
              used |-> st.used \cup {dest},
              changes |-> Append(st.changes,
                                 ChangeLine("move-dup", fn, book, chap, dest))]

RECURSIVE MoveDupLoop(_, _, _, _, _)
MoveDupLoop(st, book, maxc, chap, rest) ==
    IF rest = <<>> THEN st
    ELSE MoveDupLoop(MoveDup(st, book, maxc, chap, Head(rest)),
                     book, maxc, chap, Tail(rest))

\* the walk over sorted(chmap.keys()) (lines 123-138)
RECURSIVE ChapterLoop(_, _, _, _, _)
ChapterLoop(st, per_book, book, maxc, keys) ==
    IF keys = {} THEN st
    ELSE LET chap == SetMin(keys)
             fns  == FnsOf(per_book, book, chap)
             st2  == IF Len(fns) <= 1 THEN st
                     ELSE MoveDupLoop(st, book, maxc, chap, Tail(fns))
         IN  ChapterLoop(st2, per_book, book, maxc, keys \ {chap})

\* the loop over per_book.items() (lines 117-138); st = [data, changes]
RECURSIVE BookLoop(_, _, _)
BookLoop(st, per_book, books) ==
    IF books = <<>> THEN st
    ELSE LET book == Head(books)
             maxc == ChapterCount(book)
         IN  IF maxc = 0 THEN BookLoop(st, per_book, Tail(books))
             ELSE LET keys == ChapterKeys(per_book, book)
                      r    == ChapterLoop([data |-> st.data, used |-> keys,
                                           changes |-> st.changes],
                                          per_book, book, maxc, keys)
                  IN  BookLoop([data |-> r.data, changes |-> r.changes],
                               per_book, Tail(books))

\* main without its file access: data in, (data, changes) out
Normalize(data) ==
    LET p1 == FixRangeLoop([data |-> data, per_book |-> <<>>, changes |-> <<>>], 1)
    IN  BookLoop([data |-> p1.data, changes |-> p1.changes],
                 p1.per_book, BooksInOrder(p1.per_book))

\* ------------------------------------------------------------------------
\* Inputs of the normalizer
\* ------------------------------------------------------------------------
FileNames == <<"a.jpg", "b.jpg", "c.jpg", "d.jpg", "e.jpg", "f.jpg">>

\* two books of the registry and one that is not in it
InputBooks == {"Haggai", "Obadiah", "Tobit"}

InputRefs ==
    {RefStr(b, c) : b \in {"Haggai", "Obadiah"}, c \in 0..MaxChapter}
        \cup {RefStr("Tobit", 1)}

LegacyRef == RefStr("Genesis", 1)

\* entries with a second reference: those of Haggai and of Tobit
InputValues ==
    {<<>>, <<Malformed>>} \cup {<<r>> : r \in InputRefs}
        \cup {<<r, LegacyRef>> : r \in {q \in InputRefs : q.book # "Obadiah"}}

\* the map whose i-th entry, in insertion order, has the value vs[i]
MapOf(vs) == [i \in DOMAIN vs |-> [fn |-> FileNames[i], refs |-> vs[i]]]

\* ------------------------------------------------------------------------
\* Normalizer runs
\* ------------------------------------------------------------------------
\* no exception so far, no call so far
NoError == [kind |-> "", book |-> "", filename |-> ""]

NoCall == [filename |-> "", kind |-> "", book |-> "", chapter |-> 0]

\* no pure function was called
Idle == [fn |-> "", args |-> <<>>, ret |-> <<>>, done |-> FALSE]

\* no tool process runs next to the one of the specification
NoTools ==
    /\ fixer = [pc |-> "off", data |-> <<>>, own |-> {}]
    /\ assigner = [pc |-> "off", placement |-> <<>>, idx |-> 0, own |-> {}]
    /\ events = <<>>

\* mode "free": the text source and the images directory answer each call
\* as they like, and nothing is logged. Mode "fixed": the chapters in no_text
\* have no text, the others have; a file that the catalog does not list is
\* in images/ iff on_disk; log holds the outcome of every slot of the current
\* run and first the log of the run before.
FreeReplay ==
    [mode |-> "free", no_text |-> {}, on_disk |-> TRUE, run |-> 1,
     first |-> <<>>, log |-> <<>>]

\* a TanakhGenerator that was never constructed
NoGenerator ==
    /\ explicit_enabled = FALSE
    /\ explicit_book_intro = <<>>
    /\ explicit_chapter_map = <<>>
    /\ all_chagall_images = <<>>
    /\ chagall_chapter_map = <<>>
    /\ balanced_chapter_map = <<>>
    /\ book_intro_overrides = <<>>
    /\ test_mode = FALSE
    /\ image_usages = <<>>
    /\ used_images = {}
    /\ source_book_usage_counts = <<>>
    /\ pc = "idle"
    /\ book_idx = 0
    /\ chapter_num = 0
    /\ err = NoError
    /\ selected = <<>>
    /\ last = NoCall
    /\ replay = FreeReplay

InitNorm ==
    /\ \E n \in 0..MaxEntries : \E vs \in [1..n -> InputValues] : file = MapOf(vs)
    /\ input = file
    /\ prev = file
    /\ changes = <<>>
    /\ runs = 0
    /\ NoGenerator
    /\ call = Idle
    /\ NoTools

\* fix_placements.main: read the file, repair, write the file back
FixPlacementsMain ==
    /\ runs < MaxRuns
    /\ \E r \in {Normalize(file)} :
           /\ file' = r.data
           /\ changes' = r.changes
    /\ prev' = file
    /\ runs' = runs + 1
    /\ input' = input
    /\ UNCHANGED <<genVars, call, toolVars>>

NextNorm == FixPlacementsMain

SpecNorm == InitNorm /\ [][NextNorm]_vars

\* ------------------------------------------------------------------------
\* Properties of the normalizer
\* ------------------------------------------------------------------------
Keys(data) == {data[i].fn : i \in DOMAIN data}

\* positions of the entries whose primary reference names the recognized book
EntriesOf(data, book) ==
    {i \in DOMAIN data :
        /\ data[i].refs # <<>>
        /\ parse_ref(data[i].refs[1]) # None
        /\ parse_ref(data[i].refs[1])[1] = book}

PrimaryChapter(data, i) == parse_ref(data[i].refs[1])[2]

RecognizedBooks == {b \in InputBooks : ChapterCount(b) # 0}

\* entries of the book that share their chapter with an earlier entry
Collisions(data, book) ==
    {i \in EntriesOf(data, book) :
        \E j \in EntriesOf(data, book) :
            j < i /\ PrimaryChapter(data, j) = PrimaryChapter(data, i)}

OutOfRange(data, book) ==
    {i \in EntriesOf(data, book) :
        PrimaryChapter(data, i) < 1 \/ PrimaryChapter(data, i) > ChapterCount(book)}

\* C1: normalizing the normalizer's own output reassigns no entry and logs
\* no change: the second run leaves the file as the first run wrote it.
C1_Idempotent == runs >= 2 => (file = prev /\ changes = <<>>)

\* a second run over a map the first run had to repair, with an entry pinned
\* to the last chapter of an overfull book
C1_Witness ==
    /\ runs = 2
    /\ prev # input
    /\ \E b \in RecognizedBooks : Collisions(file, b) # {}

\* C2: after normalization every entry of a recognized book has a primary
\* chapter between 1 and the chapter count of the book.
C2_NoOutOfRangeSurvivors ==
    runs >= 1 => \A b \in RecognizedBooks : OutOfRange(file, b) = {}

\* C3: after normalization the chapters of a recognized book are pairwise
\* distinct unless it has more entries than chapters, and then exactly
\* (entries - chapters) entries share a chapter with an earlier entry.
C3_NoDuplicates ==
    runs >= 1 =>
        \A b \in RecognizedBooks :
            LET n == Cardinality(EntriesOf(file, b))
                c == ChapterCount(b)
            IN  IF n <= c THEN Collisions(file, b) = {}
                ELSE Cardinality(Collisions(file, b)) = n - c

\* C10: the normalizer neither loses nor invents an entry: the output map
\* has exactly the file names of the input map, each once.
C10_KeysPreserved ==
    runs >= 1 => (Keys(file) = Keys(input) /\ Len(file) = Len(input))

\* a run that left an out-of-range entry without a free chapter in place, or
\* pinned a displaced duplicate to the last chapter
C10_Witness ==
    /\ runs >= 1
    /\ \E b \in RecognizedBooks :
           /\ Cardinality(EntriesOf(input, b)) > ChapterCount(b)
           /\ OutOfRange(input, b) # {}
           /\ Collisions(file, b) # {}

\* an entry whose primary reference cannot be parsed or names a book outside
\* the registry
Foreign(e) ==
    /\ e.refs # <<>>
    /\ \/ parse_ref(e.refs[1]) = None
       \/ ChapterCount(parse_ref(e.refs[1])[1]) = 0

NotForeign(e) == ~Foreign(e)

\* C11: a run leaves every entry with an unparseable primary reference or an
\* unregistered book as it was (same position, same value list), and such
\* entries have no influence on the repair: the other entries and the change
\* log come out as they do for the map without them.
C11_ForeignUntouched ==
    runs >= 1 =>
        /\ \A i \in DOMAIN prev :
              Foreign(prev[i]) => (i \in DOMAIN file /\ file[i] = prev[i])
        /\ LET r == Normalize(SelectSeq(prev, NotForeign))
           IN  /\ SelectSeq(file, NotForeign) = r.data
               /\ changes = r.changes

\* a run that moved an entry of a recognized book to the chapter number that
\* an entry of an unregistered book holds, next to an unparseable entry
C11_Witness ==
    /\ runs >= 1
    /\ \E i, j \in DOMAIN prev :
           /\ Foreign(prev[i])
           /\ parse_ref(prev[i].refs[1]) # None
           /\ \E k \in DOMAIN changes : changes[k].new = prev[i].refs[1].chap
           /\ prev[j].refs # <<>>
           /\ parse_ref(prev[j].refs[1]) = None

\* the primary reference of an entry, NoRef for an empty value list
NoRef == [book |-> "", chap |-> 0, wf |-> FALSE]

Primary(e) == IF e.refs = <<>> THEN NoRef ELSE e.refs[1]

LinesOf(fn) == {k \in DOMAIN changes : changes[k].fn = fn}

\* C12: after a run, the primary reference of an entry differs from the one
\* the run read exactly when the change log has a line for its file name;
\* the line has reason fix-range or move-dup, the entry's book, the chapter
\* read as old and the chapter written as new; no file name has two lines
\* and every line belongs to an entry.
C12_ChangesLogged ==
    runs >= 1 =>
        /\ \A k \in DOMAIN changes : changes[k].fn \in Keys(prev)
        /\ \A i \in DOMAIN prev :
              /\ file[i].fn = prev[i].fn
              /\ Cardinality(LinesOf(prev[i].fn)) <= 1
              /\ (Primary(file[i]) # Primary(prev[i])) <=> (LinesOf(prev[i].fn) # {})
              /\ \A k \in LinesOf(prev[i].fn) :
                    /\ changes[k].reason \in {"fix-range", "move-dup"}
                    /\ Primary(prev[i]) = RefStr(changes[k].book, changes[k].old)
                    /\ Primary(file[i]) = RefStr(changes[k].book, changes[k].new)

\* a run that logged a fix-range line and a move-dup line and left another
\* entry of a recognized book where it was
C12_Witness ==
    /\ runs >= 1
    /\ \E k \in DOMAIN changes : changes[k].reason = "fix-range"
    /\ \E k \in DOMAIN changes : changes[k].reason = "move-dup"
    /\ \E i \in DOMAIN prev : NotForeign(prev[i]) /\ prev[i].refs # <<>>
                                /\ file[i] = prev[i]

\* C19: after a run, every entry that shares its chapter with an entry met
\* earlier has a move-dup line of that run that put it at this chapter.
C19_ResidualLogged ==
    runs = 1 =>
        \A b \in RecognizedBooks : \A i \in Collisions(file, b) :
            \E k \in LinesOf(file[i].fn) :
                /\ changes[k].reason = "move-dup"
                /\ changes[k].book = b
                /\ changes[k].new = PrimaryChapter(file, i)

\* ------------------------------------------------------------------------
\* Normalizer runs over maps of a book with many chapters
\* ------------------------------------------------------------------------
GenesisRefs ==
    {RefStr("Genesis", c) : c \in {0, 22, 50, 75}}

GenesisMaps ==
    UNION {{MapOf(vs) : vs \in [1..n -> {<<r>> : r \in GenesisRefs}]} :
              n \in 1..MaxEntries}

\* {a.jpg: Genesis 22, b.jpg: Genesis 22, c.jpg: Genesis 75}
Scenario ==
    << [fn |-> "a.jpg", refs |-> <<RefStr("Genesis", 22)>>],
       [fn |-> "b.jpg", refs |-> <<RefStr("Genesis", 22)>>],
       [fn |-> "c.jpg", refs |-> <<RefStr("Genesis", 75)>>] >>

\* the scenario in every insertion order of its three entries
ScenarioMaps ==
    {[i \in 1..3 |-> Scenario[p[i]]] :
        p \in {q \in [1..3 -> 1..3] : \A i, j \in 1..3 : q[i] = q[j] => i = j}}

InitRepair ==
    /\ \/ \E n \in 0..MaxEntries : \E vs \in [1..n -> InputValues] : file = MapOf(vs)
       \/ file \in GenesisMaps \cup ScenarioMaps
    /\ input = file
    /\ prev = file
    /\ changes = <<>>
    /\ runs = 0
    /\ NoGenerator
    /\ call = Idle
    /\ NoTools

SpecRepair == InitRepair /\ [][NextNorm]_vars

\* the fix-range lines of the run, in the order they were appended
FixLines == SelectSeq(changes, LAMBDA l : l.reason = "fix-range")

PosIn(data, fn) == SetMin({i \in DOMAIN data : data[i].fn = fn})

\* the map the run read, with the entries of the first k fix-range lines at
\* the chapters the lines name
Relocated(k) ==
    [i \in DOMAIN prev |->
        IF \E j \in 1..k : FixLines[j].fn = prev[i].fn
        THEN LET j == CHOOSE j \in 1..k : FixLines[j].fn = prev[i].fn
             IN  [fn |-> prev[i].fn,
                  refs |-> <<RefStr(FixLines[j].book, FixLines[j].new)>>]
        ELSE prev[i]]

\* the chapters of the book that no entry of data holds as primary chapter
FreeChapters(data, book) ==
    (1..ChapterCount(book)) \
        {PrimaryChapter(data, i) : i \in EntriesOf(data, book)}

\* the registry books that the map read by the run refers to
KnownBooks ==
    {b \in {Primary(prev[i]).book : i \in DOMAIN prev} : ChapterCount(b) # 0}

\* C20: each fix-range line of a run belongs to an out-of-range entry and
\* names the highest chapter of the book that no entry held when the entry
\* was met, entries relocated earlier in the run counted at their new
\* chapters; the entry ends at that chapter; an out-of-range entry is left
\* without a line only when no chapter was free; no fix-range line follows a
\* move-dup line. For {a.jpg: Genesis 22, b.jpg: Genesis 22, c.jpg: Genesis
\* 75} in any insertion order, c.jpg ends at Genesis 50, and no chapter is
\* held twice or lies outside 1..50.
C20_RangeRepair ==
    runs >= 1 =>
        /\ \A k \in DOMAIN FixLines :
              LET l    == FixLines[k]
                  i    == PosIn(prev, l.fn)
                  free == FreeChapters(Relocated(k - 1), l.book)
              IN  /\ l.book \in KnownBooks
                  /\ i \in OutOfRange(prev, l.book)
                  /\ l.old = PrimaryChapter(prev, i)
                  /\ free # {}
                  /\ l.new = SetMax(free)
                  /\ file[i].refs = <<RefStr(l.book, l.new)>>
                  /\ \A m \in 1..(k - 1) : PosIn(prev, FixLines[m].fn) < i
        /\ \A b \in KnownBooks : \A i \in OutOfRange(prev, b) :
              LET before == {k \in DOMAIN FixLines : PosIn(prev, FixLines[k].fn) < i}
              IN  \/ \E k \in DOMAIN FixLines : FixLines[k].fn = prev[i].fn
                  \/ FreeChapters(Relocated(Cardinality(before)), b) = {}
        /\ \A k, m \in DOMAIN changes :
              (changes[k].reason = "move-dup" /\ changes[m].reason = "fix-range")
                  => m < k
        /\ prev \in ScenarioMaps =>
              /\ file[PosIn(file, "c.jpg")].refs = <<RefStr("Genesis", 50)>>
              /\ Collisions(file, "Genesis") = {}
              /\ OutOfRange(file, "Genesis") = {}

\* the scenario with c.jpg met first: c.jpg went to Genesis 50 and the
\* duplicate b.jpg to Genesis 49 after it
C20_Witness ==
    /\ runs = 1
    /\ prev \in ScenarioMaps
    /\ prev[1].fn = "c.jpg"
    /\ Len(FixLines) = 1
    /\ \E k \in DOMAIN changes :
          /\ changes[k].reason = "move-dup"
          /\ changes[k].fn = "b.jpg"
          /\ changes[k].new = 49
    /\ file[1].refs = <<RefStr("Genesis", 50)>>

\* ------------------------------------------------------------------------
\* generate_tanakh.py: TanakhGenerator
\* ------------------------------------------------------------------------
books ==
    << [name |-> "Genesis", chapters |-> 50], [name |-> "Exodus", chapters |-> 40],
       [name |-> "Leviticus", chapters |-> 27], [name |-> "Numbers", chapters |-> 36],
       [name |-> "Deuteronomy", chapters |-> 34], [name |-> "Joshua", chapters |-> 24],
       [name |-> "Judges", chapters |-> 21], [name |-> "I_Samuel", chapters |-> 31],
       [name |-> "II_Samuel", chapters |-> 24], [name |-> "I_Kings", chapters |-> 22],
       [name |-> "II_Kings", chapters |-> 25], [name |-> "Isaiah", chapters |-> 66],
       [name |-> "Jeremiah", chapters |-> 52], [name |-> "Ezekiel", chapters |-> 48],
       [name |-> "Hosea", chapters |-> 14], [name |-> "Joel", chapters |-> 4],
       [name |-> "Amos", chapters |-> 9], [name |-> "Obadiah", chapters |-> 1],
       [name |-> "Jonah", chapters |-> 4], [name |-> "Micah", chapters |-> 7],
       [name |-> "Nahum", chapters |-> 3], [name |-> "Habakkuk", chapters |-> 3],
       [name |-> "Zephaniah", chapters |-> 3], [name |-> "Haggai", chapters |-> 2],
       [name |-> "Zechariah", chapters |-> 14], [name |-> "Malachi", chapters |-> 3],
       [name |-> "Psalms", chapters |-> 150], [name |-> "Proverbs", chapters |-> 31],
       [name |-> "Job", chapters |-> 42], [name |-> "Song_of_Songs", chapters |-> 8],
       [name |-> "Ruth", chapters |-> 4], [name |-> "Lamentations", chapters |-> 5],
       [name |-> "Ecclesiastes", chapters |-> 12], [name |-> "Esther", chapters |-> 10],
       [name |-> "Daniel", chapters |-> 12], [name |-> "Ezra", chapters |-> 10],
       [name |-> "Nehemiah", chapters |-> 13], [name |-> "I_Chronicles", chapters |-> 29],
       [name |-> "II_Chronicles", chapters |-> 36] >>

book_order == [i \in DOMAIN books |-> books[i].name]

\* the hand-curated (book, chapter) -> file name table
image_map ==
    << [book |-> "Genesis", chap |-> 1, filename |-> "creation.jpg"],
       [book |-> "Genesis", chap |-> 22, filename |-> "sacrificeofabraham.jpg"],
       [book |-> "Exodus", chap |-> 3, filename |-> "moses.jpg"],
       [book |-> "Joshua", chap |-> 24, filename |-> "joshuarockofschem.jpg"],
       [book |-> "I_Samuel", chap |-> 16, filename |-> "davidwithhisharp.jpg"],
       [book |-> "I_Kings", chap |-> 3, filename |-> "solomon.jpg"],
       [book |-> "Jeremiah", chap |-> 31, filename |-> "promisetojerusalem.jpg"],
       [book |-> "Ezekiel", chap |-> 37, filename |-> "mysticalcrucifixion.jpg"] >>

\* an image dict of the catalog; None is NoImage
NoImage == [filename |-> "", book |-> ""]

\* d.get((book, chap)) on a dict kept as a sequence of [book, chap, filename]
ChapterGet(d, book, chap) ==
    LET hits == {i \in DOMAIN d : d[i].book = book /\ d[i].chap = chap}
    IN  IF hits = {} THEN "" ELSE d[SetMin(hits)].filename

\* d.get(book) on a dict kept as a sequence of [book, filename]
BookGet(d, book) ==
    LET hits == {i \in DOMAIN d : d[i].book = book}
    IN  IF hits = {} THEN "" ELSE d[SetMin(hits)].filename

\* chapter_count_by_book.get(book), 0 for None
chapter_count_by_book(book) ==
    LET hits == {i \in DOMAIN books : books[i].name = book}
    IN  IF hits = {} THEN 0 ELSE books[SetMin(hits)].chapters

\* self.chagall_images.get(book) or []: the catalog images tagged with book
ImagesOf(catalog, book) == SelectSeq(catalog, LAMBDA im : im.book = book)

\* source_book_by_filename.get(fn, "General")
SourceBook(catalog, fn) ==
    LET hits == {i \in DOMAIN catalog : catalog[i].filename = fn}
    IN  IF hits = {} THEN "General"
        ELSE IF catalog[SetMax(hits)].book = "" THEN "General"
        ELSE catalog[SetMax(hits)].book

\* _load_chagall_placements: (book, chap) -> [filenames], flattened in file order
RECURSIVE LoadPlacements(_)
LoadPlacements(placement) ==
    IF placement = <<>> THEN <<>>
    ELSE LET init == LoadPlacements(SubSeq(placement, 1, Len(placement) - 1))
             e    == placement[Len(placement)]
         IN  IF e.refs = <<>> THEN init
             ELSE IF parse_ref(e.refs[1]) = None THEN init
             ELSE Append(init, [book |-> parse_ref(e.refs[1])[1],
                                chap |-> parse_ref(e.refs[1])[2],
                                fn   |-> e.fn])

\* BalancedTarget that spreads over chapters instead of chapters + 1
BalancedTargetCoarse(i, chapters, count) ==
    LET raw == ((i + 1) * chapters) \div (count + 1)
        low == IF chapters < raw THEN chapters ELSE raw
    IN  IF 1 > low THEN 1 ELSE low

\* the evenly spaced target chapter of the i-th image, i counted from 0
BalancedTarget(i, chapters, count) ==
    LET raw == ((i + 1) * (chapters + 1)) \div (count + 1)
        low == IF chapters < raw THEN chapters ELSE raw
    IN  IF 1 > low THEN 1 ELSE low

RECURSIVE ProbeForward(_, _, _)
ProbeForward(chap, used_targets, chapters) ==
    IF chap \in used_targets /\ chap <= chapters
    THEN ProbeForward(chap + 1, used_targets, chapters)
    ELSE chap

RECURSIVE ProbeBackward(_, _)
ProbeBackward(chap, used_targets) ==
    IF chap \in used_targets /\ chap >= 1
    THEN ProbeBackward(chap - 1, used_targets)
    ELSE chap

\* the loop "for t in targets" (lines 385-403); st = [used_targets, fi, balanced, stop]
BalancedAssign(st, t, book, filenames, chapters) ==
    LET up   == ProbeForward(t, st.used_targets, chapters)
        chap == IF up > chapters THEN ProbeBackward(t, st.used_targets) ELSE up
    IN  IF st.stop THEN st
        ELSE IF up > chapters /\ (chap < 1 \/ chap \in st.used_targets) THEN st
        ELSE IF st.fi >= Len(filenames)
             THEN [st EXCEPT !.used_targets = @ \cup {chap}, !.stop = TRUE]
        ELSE [used_targets |-> st.used_targets \cup {chap},
              fi |-> st.fi + 1,
              balanced |-> Append(st.balanced,
                                  [book |-> book, chap |-> chap,
                                   filename |-> filenames[st.fi + 1]]),
              stop |-> FALSE]

RECURSIVE BalancedLoop(_, _, _, _, _, _)
BalancedLoop(st, i, count, book, filenames, chapters) ==
    IF i >= count THEN st
    ELSE BalancedLoop(BalancedAssign(st, BalancedTarget(i, chapters, count),
                                     book, filenames, chapters),
                      i + 1, count, book, filenames, chapters)

\* the balanced slots of one book of chagall_images
BalancedOfBook(catalog, book) ==
    LET chapters  == chapter_count_by_book(book)
        images    == ImagesOf(catalog, book)
        withName  == SelectSeq(images, LAMBDA im : im.filename # "")
        filenames == [i \in DOMAIN withName |-> withName[i].filename]
        count     == IF Len(filenames) < chapters THEN Len(filenames) ELSE chapters
    IN  IF chapters = 0 \/ filenames = <<>> THEN <<>>
        ELSE BalancedLoop([used_targets |-> {}, fi |-> 0, balanced |-> <<>>,
                           stop |-> FALSE],
                          0, count, book, filenames, chapters).balanced

\* _build_balanced_placements: the books of chagall_images in insertion order
RECURSIVE BuildBalanced(_, _)
BuildBalanced(catalog, k) ==
    IF k = 0 THEN <<>>
    ELSE LET init == BuildBalanced(catalog, k - 1)
             book == catalog[k].book
         IN  IF \E j \in 1..(k - 1) : catalog[j].book = book THEN init
             ELSE init \o BalancedOfBook(catalog, book)

\* first_unused that does not look at the used set
first_any(img_list, used) ==
    LET hits == {i \in DOMAIN img_list : img_list[i].filename # ""}
    IN  IF hits = {} THEN NoImage ELSE img_list[SetMin(hits)]

\* first_unused of _select_book_image
first_unused(img_list, used) ==
    LET hits == {i \in DOMAIN img_list :
                    img_list[i].filename # "" /\ img_list[i].filename \notin used}
    IN  IF hits = {} THEN NoImage ELSE img_list[SetMin(hits)]

\* the override branch of _select_book_image (lines 244-247)
OverridePick(images, override, used) ==
    LET hits == {i \in DOMAIN images :
                    images[i].filename = override /\ images[i].filename \notin used}
    IN  IF override = "" \/ hits = {} THEN NoImage ELSE images[SetMin(hits)]

\* _select_book_image that returns None for a book without an explicit intro
select_book_image_lenient(book_name, exists) ==
    IF explicit_enabled
    THEN LET filename == BookGet(explicit_book_intro, book_name)
             hits == {i \in DOMAIN all_chagall_images :
                         all_chagall_images[i].filename = filename}
         IN  IF filename = ""
             THEN [raise |-> "", img |-> NoImage]
             ELSE IF hits # {}
             THEN [raise |-> "", img |-> all_chagall_images[SetMin(hits)]]
             ELSE IF ~exists
             THEN [raise |-> "intro_not_found", img |-> NoImage]
             ELSE [raise |-> "", img |-> [filename |-> filename, book |-> "General"]]
    ELSE LET override == BookGet(book_intro_overrides, book_name)
             images   == ImagesOf(all_chagall_images, book_name)
             byOver   == OverridePick(images, override, used_images)
             own      == first_unused(images, used_images)
             general  == first_unused(ImagesOf(all_chagall_images, "General"),
                                      used_images)
         IN  [raise |-> "",
              img |-> IF byOver # NoImage THEN byOver
                      ELSE IF own # NoImage THEN own
                      ELSE general]

\* _select_book_image; exists: images/<filename> is on disk.  raise names the
\* exception, "" when the call returns
select_book_image(book_name, exists) ==
    IF explicit_enabled
    THEN LET filename == BookGet(explicit_book_intro, book_name)
             hits == {i \in DOMAIN all_chagall_images :
                         all_chagall_images[i].filename = filename}
         IN  IF filename = ""
             THEN [raise |-> "missing_intro", img |-> NoImage]
             ELSE IF hits # {}
             THEN [raise |-> "", img |-> all_chagall_images[SetMin(hits)]]
             ELSE IF ~exists
             THEN [raise |-> "intro_not_found", img |-> NoImage]
             ELSE [raise |-> "", img |-> [filename |-> filename, book |-> "General"]]
    ELSE LET override == BookGet(book_intro_overrides, book_name)
             images   == ImagesOf(all_chagall_images, book_name)
             byOver   == OverridePick(images, override, used_images)
             own      == first_unused(images, used_images)
             general  == first_unused(ImagesOf(all_chagall_images, "General"),
                                      used_images)
         IN  [raise |-> "",
              img |-> IF byOver # NoImage THEN byOver
                      ELSE IF own # NoImage THEN own
                      ELSE general]

\* lexical order of the file names that occur in the explored inputs
FileOrder ==
    << "cover.jpg", "davidwithhisharp.jpg", "g1.jpg", "h1.jpg",
       "s1.jpg", "s2.jpg", "s3.jpg" >>

FileRank(fn) == SetMin({i \in DOMAIN FileOrder : FileOrder[i] = fn})

\* score with the registry position compared before the usage count
score_order_first(fn, book_name) ==
    LET src    == SourceBook(all_chagall_images, fn)
        prefer == IF src = book_name THEN 0 ELSE 1
        usage  == IF src \in DOMAIN source_book_usage_counts
                  THEN source_book_usage_counts[src] ELSE 0
        pos    == {i \in DOMAIN book_order : book_order[i] = src}
        order  == IF pos # {} THEN SetMin(pos) - 1 ELSE Len(book_order) + 1
    IN  <<prefer, order, usage, FileRank(fn)>>

\* score of pick_candidate_for_chapter (lines 530-539)
score(fn, book_name) ==
    LET src    == SourceBook(all_chagall_images, fn)
        prefer == IF src = book_name THEN 0 ELSE 1
        usage  == IF src \in DOMAIN source_book_usage_counts
                  THEN source_book_usage_counts[src] ELSE 0
        pos    == {i \in DOMAIN book_order : book_order[i] = src}
        order  == IF pos # {} THEN SetMin(pos) - 1 ELSE Len(book_order) + 1
    IN  <<prefer, usage, order, FileRank(fn)>>

\* tuple comparison a <= b of Python
RECURSIVE TupleLE(_, _)
TupleLE(a, b) ==
    IF a = <<>> THEN TRUE
    ELSE IF b = <<>> THEN FALSE
    ELSE IF Head(a) < Head(b) THEN TRUE
    ELSE IF Head(a) > Head(b) THEN FALSE
    ELSE TupleLE(Tail(a), Tail(b))

\* pick_candidate_for_chapter (lines 514-542)
pick_candidate_for_chapter(book_name, chap) ==
    LET files  == {chagall_chapter_map[i].fn : i \in
                      {j \in DOMAIN chagall_chapter_map :
                          /\ chagall_chapter_map[j].book = book_name
                          /\ chagall_chapter_map[j].chap = chap}}
        unused == {f \in files : f \notin used_images}
    IN  IF unused = {} THEN ""
        ELSE CHOOSE f \in unused :
                \A g \in unused : TupleLE(score(f, book_name), score(g, book_name))

\* select_chapter_image without the uniqueness check of lines 545-548
select_chapter_image_unchecked(book_name, chap) ==
    LET first  == IF explicit_enabled
                  THEN ChapterGet(explicit_chapter_map, book_name, chap)
                  ELSE ChapterGet(image_map, book_name, chap)
        second == IF first = "" /\ ~explicit_enabled
                  THEN ChapterGet(balanced_chapter_map, book_name, chap)
                  ELSE first
    IN  [raise |-> "",
         image_file |-> IF second = "" /\ ~explicit_enabled
                        THEN pick_candidate_for_chapter(book_name, chap)
                        ELSE second]

\* select_chapter_image with the balanced slot and the placement map
\* consulted in strict mode too
select_chapter_image_fallback(book_name, chap) ==
    LET first  == IF explicit_enabled
                  THEN ChapterGet(explicit_chapter_map, book_name, chap)
                  ELSE ChapterGet(image_map, book_name, chap)
        second == IF first = ""
                  THEN ChapterGet(balanced_chapter_map, book_name, chap)
                  ELSE first
        reused == second # "" /\ second \in used_images
        third  == IF reused THEN "" ELSE second
    IN  IF reused /\ explicit_enabled
        THEN [raise |-> "reuse", image_file |-> second]
        ELSE [raise |-> "",
              image_file |-> IF third = ""
                             THEN pick_candidate_for_chapter(book_name, chap)
                             ELSE third]

\* lines 502-551 of create_chapter_responsive: the image of the chapter, or
\* the raise
select_chapter_image(book_name, chap) ==
    LET first  == IF explicit_enabled
                  THEN ChapterGet(explicit_chapter_map, book_name, chap)
                  ELSE ChapterGet(image_map, book_name, chap)
        second == IF first = "" /\ ~explicit_enabled
                  THEN ChapterGet(balanced_chapter_map, book_name, chap)
                  ELSE first
        reused == second # "" /\ second \in used_images
        third  == IF reused THEN "" ELSE second
    IN  IF reused /\ explicit_enabled
        THEN [raise |-> "reuse", image_file |-> second]
        ELSE [raise |-> "",
              image_file |-> IF third = "" /\ ~explicit_enabled
                             THEN pick_candidate_for_chapter(book_name, chap)
                             ELSE third]

\* CountUp that counts the images of the registry books only
CountUpRegistry(counts, src_bk) ==
    IF src_bk \in Range(book_order)
    THEN [counts EXCEPT ![src_bk] = @ + 1]
    ELSE counts

\* source_book_usage_counts[src_bk] = source_book_usage_counts.get(src_bk, 0) + 1
CountUp(counts, src_bk) ==
    IF src_bk \in DOMAIN counts
    THEN [counts EXCEPT ![src_bk] = @ + 1]
    ELSE [b \in DOMAIN counts \cup {src_bk} |->
            IF b = src_bk THEN 1 ELSE counts[b]]

\* ------------------------------------------------------------------------
\* generate: the loop over books_to_process
\* ------------------------------------------------------------------------
\* the part of the registry that a run walks through, in registry order
ProcessedBooks == {"I_Samuel", "Obadiah", "Haggai"}

books_to_process == SelectSeq(books, LAMBDA b : b.name \in ProcessedBooks)

chapter_count(b) ==
    IF test_mode /\ 3 < b.chapters THEN 3 ELSE b.chapters

Usage(fn, kind, book, chap) ==
    [filename |-> fn, kind |-> kind, book |-> book, chapter |-> chap]

\* the slot that generate turns to after the current one
Advance ==
    IF chapter_num < chapter_count(books_to_process[book_idx])
    THEN /\ chapter_num' = chapter_num + 1
         /\ book_idx' = book_idx
    ELSE /\ chapter_num' = 0
         /\ book_idx' = book_idx + 1

\* the outcome of the slot that a step of generate worked on, logged in
\* mode "fixed"
Logged ==
    IF replay.mode = "free" THEN replay
    ELSE [replay EXCEPT !.log = Append(@, [pc |-> pc', last |-> last', err |-> err'])]

\* Path("images") / filename exists (line 223)
DiskOutcomes == IF replay.mode = "free" THEN BOOLEAN ELSE {replay.on_disk}

\* create_book_intro_page for the current book (lines 261-280, called at 1061)
CreateBookIntroPage ==
    /\ pc = "run"
    /\ book_idx <= Len(books_to_process)
    /\ chapter_num = 0
    /\ \E exists \in DiskOutcomes :
        LET book_name == books_to_process[book_idx].name
            r  == select_book_image(book_name, exists)
            fn == r.img.filename
        IN  IF r.raise # ""
            THEN /\ pc' = "error"
                 /\ err' = [kind |-> r.raise, book |-> book_name,
                            filename |-> BookGet(explicit_book_intro, book_name)]
                 /\ UNCHANGED <<image_usages, used_images, source_book_usage_counts,
                                book_idx, chapter_num, selected, last>>
            ELSE IF r.img = NoImage
            THEN /\ last' = Usage("", "intro", book_name, 0)
                 /\ Advance
                 /\ UNCHANGED <<image_usages, used_images, source_book_usage_counts,
                                pc, err, selected>>
            ELSE /\ image_usages' = Append(image_usages, Usage(fn, "intro", book_name, 0))
                 /\ IF explicit_enabled /\ fn \in used_images
                    THEN /\ pc' = "error"
                         /\ err' = [kind |-> "reuse", book |-> book_name, filename |-> fn]
                         /\ UNCHANGED <<used_images, source_book_usage_counts,
                                        book_idx, chapter_num, selected, last>>
                    ELSE /\ used_images' = used_images \cup {fn}
                         /\ source_book_usage_counts' =
                                CountUp(source_book_usage_counts,
                                        SourceBook(all_chagall_images, fn))
                         /\ selected' = Append(selected, Usage(fn, "intro", book_name, 0))
                         /\ last' = Usage(fn, "intro", book_name, 0)
                         /\ Advance
                         /\ UNCHANGED <<pc, err>>
    /\ replay' = Logged
    /\ UNCHANGED <<call, toolVars, normVars, cfgVars>>

\* what fetch_text hands to create_chapter_responsive: a chapter with both
\* verse fields, or nothing usable
FetchResults == {"text", "empty"}

\* what fetch_text returns for the chapter
FetchOutcomes(book_name, chap) ==
    IF replay.mode = "free" THEN FetchResults
    ELSE IF <<book_name, chap>> \in replay.no_text THEN {"empty"}
    ELSE {"text"}

\* every fetch result taken as a chapter with verses
HasContentAlways(data) == TRUE

\* the test of lines 472-473 negated: data is not empty and has both the
\* field "he" and the field "text"
HasContent(data) == data = "text"

\* create_chapter_responsive for the current chapter (lines 465-563, called at 1068)
CreateChapterResponsive ==
    /\ pc = "run"
    /\ book_idx <= Len(books_to_process)
    /\ chapter_num >= 1
    /\ \E data \in FetchOutcomes(books_to_process[book_idx].name, chapter_num) :
        LET book_name == books_to_process[book_idx].name
            r  == select_chapter_image(book_name, chapter_num)
            fn == r.image_file
        IN  IF ~HasContent(data)
            THEN /\ last' = Usage("", "no-text", book_name, chapter_num)
                 /\ Advance
                 /\ UNCHANGED <<image_usages, used_images, source_book_usage_counts,
                                pc, err, selected>>
            ELSE IF r.raise # ""
            THEN /\ pc' = "error"
                 /\ err' = [kind |-> r.raise, book |-> book_name, filename |-> fn]
                 /\ UNCHANGED <<image_usages, used_images, source_book_usage_counts,
                                book_idx, chapter_num, selected, last>>
            ELSE IF fn = ""
            THEN /\ last' = Usage("", "chapter", book_name, chapter_num)
                 /\ Advance
                 /\ UNCHANGED <<image_usages, used_images, source_book_usage_counts,
                                pc, err, selected>>
            ELSE /\ image_usages' =
                        Append(image_usages, Usage(fn, "chapter", book_name, chapter_num))
                 /\ used_images' = used_images \cup {fn}
                 /\ source_book_usage_counts' =
                        CountUp(source_book_usage_counts,
                                SourceBook(all_chagall_images, fn))
                 /\ selected' = Append(selected, Usage(fn, "chapter", book_name, chapter_num))
                 /\ last' = Usage(fn, "chapter", book_name, chapter_num)
                 /\ Advance
                 /\ UNCHANGED <<pc, err>>
    /\ replay' = Logged
    /\ UNCHANGED <<call, toolVars, normVars, cfgVars>>

\* epub.write_epub at the end of generate (line 1094)
WriteEpub ==
    /\ pc = "run"
    /\ book_idx > Len(books_to_process)
    /\ pc' = "written"
    /\ UNCHANGED <<call, toolVars, normVars, cfgVars, image_usages, used_images,
                   source_book_usage_counts, book_idx, chapter_num, err,
                   selected, last>>
    /\ replay' = Logged

NextGen == CreateBookIntroPage \/ CreateChapterResponsive \/ WriteEpub

\* ------------------------------------------------------------------------
\* Inputs of a generation run
\* ------------------------------------------------------------------------
\* the entries of chagall_download_config.json whose image file exists, in
\* the order of the config file
MasterCatalog ==
    << [filename |-> "davidwithhisharp.jpg", book |-> "General"],
       [filename |-> "s1.jpg", book |-> "I_Samuel"],
       [filename |-> "s2.jpg", book |-> "I_Samuel"],
       [filename |-> "s3.jpg", book |-> "I_Samuel"],
       [filename |-> "h1.jpg", book |-> "Haggai"],
       [filename |-> "g1.jpg", book |-> "General"] >>

\* the sub-list of seq at the positions in S
RECURSIVE SubList(_, _)
SubList(seq, S) ==
    IF S = {} THEN <<>>
    ELSE Append(SubList(seq, S \ {SetMax(S)}), seq[SetMax(S)])

Catalogs ==
    {SubList(MasterCatalog, S) :
        S \in {T \in SUBSET DOMAIN MasterCatalog : Cardinality(T) <= MaxImages}}

\* the placement files read by the generator
PlacedEntries ==
    { [fn |-> "davidwithhisharp.jpg", refs |-> <<RefStr("I_Samuel", 2)>>],
      [fn |-> "s2.jpg", refs |-> <<RefStr("I_Samuel", 2)>>],
      [fn |-> "h1.jpg", refs |-> <<RefStr("I_Samuel", 2)>>],
      [fn |-> "h1.jpg", refs |-> <<RefStr("Haggai", 2)>>] }

DistinctKeys(data) ==
    \A i, j \in DOMAIN data : data[i].fn = data[j].fn => i = j

GenPlacements == {d \in SeqsUpTo(PlacedEntries, MaxPlaced) : DistinctKeys(d)}

\* book_intro_overrides.json
OverrideChoices ==
    { <<>>,
      <<[book |-> "I_Samuel", filename |-> "s2.jpg"]>>,
      <<[book |-> "I_Samuel", filename |-> "g1.jpg"]>> }

\* explicit_placements.json
ExplicitIntroChoices ==
    { SelectSeq(<< [book |-> "I_Samuel", filename |-> a],
                   [book |-> "Obadiah", filename |-> b],
                   [book |-> "Haggai", filename |-> c] >>,
                LAMBDA e : e.filename # "") :
        a \in {"", "s1.jpg", "cover.jpg"},
        b \in {"", "s1.jpg", "h1.jpg"},
        c \in {"", "h1.jpg", "cover.jpg"} }

ExplicitChapterChoices ==
    { SelectSeq(<< [book |-> "I_Samuel", chap |-> 2, filename |-> a],
                   [book |-> "Haggai", chap |-> 1, filename |-> b] >>,
                LAMBDA e : e.filename # "") :
        a \in {"", "s1.jpg", "s2.jpg"},
        b \in {"", "s2.jpg", "h1.jpg"} }

\* the state after TanakhGenerator.__init__ when generate enters its loop
\* source_book_usage_counts as __init__ leaves it (lines 113-114)
FreshCounts == [b \in Range(book_order) \cup {"General"} |-> 0]

Constructed ==
    /\ chagall_chapter_map = LoadPlacements(file)
    /\ balanced_chapter_map = BuildBalanced(all_chagall_images, Len(all_chagall_images))
    /\ image_usages = <<>>
    /\ used_images = {}
    /\ source_book_usage_counts = FreshCounts
    /\ pc = "run"
    /\ book_idx = 1
    /\ chapter_num = 0
    /\ err = NoError
    /\ selected = <<>>
    /\ last = NoCall
    /\ input = file
    /\ prev = file
    /\ changes = <<>>
    /\ runs = 0
    /\ call = Idle
    /\ NoTools

\* no explicit_placements.json: heuristic selection
InitHeuristic ==
    /\ explicit_enabled = FALSE
    /\ explicit_book_intro = <<>>
    /\ explicit_chapter_map = <<>>
    /\ all_chagall_images \in Catalogs
    /\ file \in GenPlacements
    /\ book_intro_overrides \in OverrideChoices
    /\ test_mode = FALSE
    /\ Constructed

\* explicit_placements.json loaded: strict mode
InitExplicit ==
    /\ explicit_enabled = TRUE
    /\ explicit_book_intro \in ExplicitIntroChoices
    /\ explicit_chapter_map \in ExplicitChapterChoices
    /\ all_chagall_images \in {c \in Catalogs : Len(c) <= 1}
    /\ file \in {d \in GenPlacements : Len(d) <= 1 /\ Range(d) \subseteq
                    {[fn |-> "s2.jpg", refs |-> <<RefStr("I_Samuel", 2)>>]}}
    /\ book_intro_overrides = <<>>
    /\ test_mode \in BOOLEAN
    /\ Constructed

InitGen == (InitHeuristic \/ InitExplicit) /\ replay = FreeReplay

SpecGen == InitGen /\ [][NextGen]_vars

\* ------------------------------------------------------------------------
\* Two runs of the generator over the same files
\* ------------------------------------------------------------------------
\* generate called once more on the generator of the run before
SameGenerator(old) == old

\* the ledger of the TanakhGenerator that main constructs for a run
\* (lines 100-114); old is the ledger of the run before
NewGenerator(old) ==
    [image_usages |-> <<>>, used_images |-> {}, counts |-> FreshCounts]

\* the chapters that the text source may lack
NoTextSlots == {<<"I_Samuel", 2>>, <<"Haggai", 1>>}

FixedReplays ==
    {[mode |-> "fixed", no_text |-> nt, on_disk |-> d, run |-> 1,
      first |-> <<>>, log |-> <<>>] :
        nt \in {S \in SUBSET NoTextSlots : Cardinality(S) <= MaxNoText},
        d \in BOOLEAN}

\* the images directory matters in strict mode only
InitRerun ==
    \/ /\ InitHeuristic
       /\ replay \in {r \in FixedReplays : r.on_disk}
       /\ \/ book_intro_overrides = <<>>
          \/ /\ replay.no_text = {}
             /\ book_intro_overrides[1].filename = "s2.jpg"
    \/ /\ InitExplicit
       /\ test_mode
       /\ replay \in {r \in FixedReplays : r.no_text = {}}

\* main once more: the same files, a new TanakhGenerator, generate again
Rerun ==
    /\ replay.mode = "fixed"
    /\ replay.run = 1
    /\ pc \in {"written", "error"}
    /\ LET g == NewGenerator([image_usages |-> image_usages,
                              used_images |-> used_images,
                              counts |-> source_book_usage_counts])
       IN  /\ image_usages' = g.image_usages
           /\ used_images' = g.used_images
           /\ source_book_usage_counts' = g.counts
    /\ chagall_chapter_map' = LoadPlacements(file)
    /\ balanced_chapter_map' =
            BuildBalanced(all_chagall_images, Len(all_chagall_images))
    /\ pc' = "run"
    /\ book_idx' = 1
    /\ chapter_num' = 0
    /\ err' = NoError
    /\ selected' = <<>>
    /\ last' = NoCall
    /\ replay' = [replay EXCEPT !.run = 2, !.first = replay.log, !.log = <<>>]
    /\ UNCHANGED <<call, toolVars, normVars, explicit_enabled, explicit_book_intro,
                   explicit_chapter_map, all_chagall_images, book_intro_overrides,
                   test_mode>>

NextRerun == NextGen \/ Rerun

SpecRerun == InitRerun /\ [][NextRerun]_vars

\* ------------------------------------------------------------------------
\* Runs whose placement map offers a chapter several images
\* ------------------------------------------------------------------------
\* chagall_placement_map.json with up to MaxPlaced images at Haggai 2
TiedEntries ==
    { [fn |-> "davidwithhisharp.jpg", refs |-> <<RefStr("Haggai", 2)>>],
      [fn |-> "s3.jpg", refs |-> <<RefStr("Haggai", 2)>>],
      [fn |-> "h1.jpg", refs |-> <<RefStr("Haggai", 2)>>],
      [fn |-> "g1.jpg", refs |-> <<RefStr("Haggai", 2)>>] }

TiedPlacements == {d \in SeqsUpTo(TiedEntries, MaxPlaced) : DistinctKeys(d)}

InitTied ==
    /\ explicit_enabled = FALSE
    /\ explicit_book_intro = <<>>
    /\ explicit_chapter_map = <<>>
    /\ all_chagall_images \in Catalogs
    /\ file \in TiedPlacements
    /\ book_intro_overrides = <<>>
    /\ test_mode = FALSE
    /\ Constructed
    /\ replay = FreeReplay

SpecTied == InitTied /\ [][NextGen]_vars

\* ------------------------------------------------------------------------
\* Properties of the selector
\* ------------------------------------------------------------------------
Running == pc = "run" /\ book_idx <= Len(books_to_process)

CurrentBook == books_to_process[book_idx].name

\* the step is a call of create_book_intro_page that returned
IntroReturned == Running /\ chapter_num = 0 /\ pc' = "run"

\* the step is a call of create_chapter_responsive that had text and returned
ChapterReturned ==
    Running /\ chapter_num >= 1 /\ pc' = "run" /\ last'.kind = "chapter"

\* C4: within one run no file name is selected twice, by either operation.
C4_SelectedOnce ==
    \A i, j \in DOMAIN selected :
        selected[i].filename = selected[j].filename => i = j

\* heuristic mode: a chapter whose balanced slot names an image that an
\* earlier selection took got no image from it; strict mode: the second use
\* raised
C4_Witness ==
    \/ /\ ~explicit_enabled
       /\ Len(selected) >= 2
       /\ last.kind = "chapter"
       /\ ChapterGet(balanced_chapter_map, last.book, last.chapter) \in used_images
       /\ last.filename # ChapterGet(balanced_chapter_map, last.book, last.chapter)
    \/ /\ explicit_enabled
       /\ pc = "error"
       /\ err.kind = "reuse"

HasIntro(book) == BookGet(explicit_book_intro, book) # ""

\* C5: in strict mode no run gets past the intro slot of a book without an
\* explicit intro mapping: the run ends there in the error that names the
\* book, and write_epub is not reached.
C5_MissingIntroAborts ==
    explicit_enabled =>
        /\ \A k \in DOMAIN books_to_process :
              (k < book_idx \/ (k = book_idx /\ chapter_num >= 1))
                  => HasIntro(books_to_process[k].name)
        /\ pc = "written" =>
              \A k \in DOMAIN books_to_process : HasIntro(books_to_process[k].name)
        /\ (pc = "error" /\ chapter_num = 0 /\ ~HasIntro(CurrentBook))
              => (err.kind = "missing_intro" /\ err.book = CurrentBook)

\* a run that selected an image for an earlier book and then ended at a book
\* without an intro mapping
C5_Witness ==
    /\ explicit_enabled
    /\ pc = "error"
    /\ err.kind = "missing_intro"
    /\ book_idx >= 2
    /\ selected # <<>>

\* the image that the explicit mapping names for the current slot
CurrentExplicit ==
    IF chapter_num = 0
    THEN BookGet(explicit_book_intro, CurrentBook)
    ELSE ChapterGet(explicit_chapter_map, CurrentBook, chapter_num)

\* C6: in strict mode a slot whose explicit image is already used ends the
\* run in an error at that slot (the reuse error, or for an intro image that
\* is neither in the catalog nor on disk the not-found error), with the used
\* set and the usage counters as they were; a chapter without text selects
\* nothing; and nothing is processed after an error.
C6_ReuseRaises ==
    [][ /\ (explicit_enabled /\ Running /\ CurrentExplicit \in used_images)
            => \/ /\ pc' = "error"
                  /\ err'.kind \in {"reuse", "intro_not_found"}
                  /\ err'.kind = "intro_not_found" => chapter_num = 0
                  /\ err'.filename = CurrentExplicit
                  /\ err'.book = CurrentBook
                  /\ used_images' = used_images
                  /\ source_book_usage_counts' = source_book_usage_counts
                  /\ selected' = selected
                  /\ book_idx' = book_idx
                  /\ chapter_num' = chapter_num
               \/ /\ chapter_num >= 1
                  /\ last'.kind = "no-text"
                  /\ pc' = "run"
                  /\ used_images' = used_images
                  /\ source_book_usage_counts' = source_book_usage_counts
        /\ pc = "error" => FALSE
      ]_vars

\* a reuse error at a slot after the image was selected for an earlier one
C6_Witness ==
    /\ explicit_enabled
    /\ pc = "error"
    /\ err.kind = "reuse"
    /\ \E i \in DOMAIN selected : selected[i].filename = err.filename

\* the image the stated order yields for the current chapter
ExpectedChapterImage ==
    LET override == ChapterGet(image_map, CurrentBook, chapter_num)
        balanced == ChapterGet(balanced_chapter_map, CurrentBook, chapter_num)
    IN  IF override # "" /\ override \notin used_images THEN override
        ELSE IF balanced # "" /\ balanced \notin used_images THEN balanced
        ELSE pick_candidate_for_chapter(CurrentBook, chapter_num)

\* C7: in heuristic mode a chapter gets the hand-curated image if unused, else
\* the balanced slot image if unused, else the best unused placement-map
\* image, else none.
C7_ResolutionOrder ==
    [][(~explicit_enabled /\ ChapterReturned)
            => last'.filename = ExpectedChapterImage]_vars

\* the image the stated order yields for the intro page of the current book
ExpectedIntroImage ==
    LET override == BookGet(book_intro_overrides, CurrentBook)
        own      == first_unused(ImagesOf(all_chagall_images, CurrentBook), used_images)
        general  == first_unused(ImagesOf(all_chagall_images, "General"), used_images)
        inCatalog == \E i \in DOMAIN all_chagall_images :
                        all_chagall_images[i].filename = override
    IN  IF override # "" /\ inCatalog /\ override \notin used_images THEN override
        ELSE IF own # NoImage THEN own.filename
        ELSE general.filename

\* C8: in heuristic mode the intro page gets the configured override if it is
\* an unused image of the catalog, else the first unused image of the book,
\* else the first unused General image, else none; a returned image joins the
\* used set and adds one to the usage counter of its source book.
C8_IntroSelection ==
    [][(~explicit_enabled /\ IntroReturned)
            => /\ last'.filename = ExpectedIntroImage
               /\ last'.filename # "" =>
                    /\ used_images' = used_images \cup {last'.filename}
                    /\ source_book_usage_counts' =
                          CountUp(source_book_usage_counts,
                                  SourceBook(all_chagall_images, last'.filename))
      ]_vars

\* the images that chapter selection can return for the chapters of a book
Pool(book) ==
    IF explicit_enabled
    THEN {explicit_chapter_map[i].filename : i \in
            {j \in DOMAIN explicit_chapter_map : explicit_chapter_map[j].book = book}}
    ELSE {image_map[i].filename : i \in
            {j \in DOMAIN image_map : image_map[j].book = book}}
         \cup {balanced_chapter_map[i].filename : i \in
            {j \in DOMAIN balanced_chapter_map : balanced_chapter_map[j].book = book}}
         \cup {chagall_chapter_map[i].fn : i \in
            {j \in DOMAIN chagall_chapter_map : chagall_chapter_map[j].book = book}}

\* positions in selected of the chapter images of a book
ChapterResults(book) ==
    {i \in DOMAIN selected : selected[i].kind = "chapter" /\ selected[i].book = book}

\* C9 as stated: the (k+1)-th chapter selection of a book with a pool of k
\* images returns none.
C9_LastCallNone ==
    (Running \/ pc = "written") =>
        \A k \in DOMAIN books_to_process :
            LET b == books_to_process[k].name
            IN  (last.kind \in {"chapter", "no-text"} /\ last.book = b
                    /\ last.chapter = Cardinality(Pool(b)) + 1)
                => last.filename = ""

\* C9 as amended: the chapter images of a book are pairwise distinct images
\* of its pool, so at most k calls return an image and every call after the
\* k-th image returns none.
C9_Exhaustion ==
    \A k \in DOMAIN books_to_process :
        LET b == books_to_process[k].name
        IN  /\ \A i \in ChapterResults(b) : selected[i].filename \in Pool(b)
            /\ \A i, j \in ChapterResults(b) :
                  selected[i].filename = selected[j].filename => i = j
            /\ Cardinality(ChapterResults(b)) <= Cardinality(Pool(b))

\* a book whose whole pool was handed out, followed by a call that got none
C9_Witness ==
    /\ Running
    /\ last.kind = "chapter"
    /\ last.filename = ""
    /\ Pool(last.book) # {}
    /\ Cardinality(ChapterResults(last.book)) = Cardinality(Pool(last.book))

\* ------------------------------------------------------------------------
\* generate_placement_map.py and suggest_placements.py: Roman numerals
\* ------------------------------------------------------------------------
\* a string is the sequence of its characters; dotless_i is U+0131, the one
\* character outside ASCII that str.upper() turns into a Roman letter
Chars == {"I", "V", "X", "L", "C", "D", "M", "i", "v", "x", "dotless_i", "A", "1"}

\* str.upper() on one character
UpperChar(ch) ==
    CASE ch = "i" -> "I" [] ch = "v" -> "V" [] ch = "x" -> "X"
      [] ch = "dotless_i" -> "I" [] OTHER -> ch

upper(str) == [i \in DOMAIN str |-> UpperChar(str[i])]

\* the dict values / ROMAN_VALUES; .get(ch) gives 0 for None
ROMAN_VALUES ==
    [ch \in {"I", "V", "X", "L", "C", "D", "M"} |->
        CASE ch = "I" -> 1 [] ch = "V" -> 5 [] ch = "X" -> 10 [] ch = "L" -> 50
          [] ch = "C" -> 100 [] ch = "D" -> 500 [] ch = "M" -> 1000]

RomanGet(ch) == IF ch \in DOMAIN ROMAN_VALUES THEN ROMAN_VALUES[ch] ELSE 0

\* the loop over reversed(roman) from position i down; 0 stands for None
RECURSIVE RomanLoopAdditive(_, _, _, _)
RomanLoopAdditive(roman, i, total, prv) ==
    IF i = 0 THEN total
    ELSE IF roman[i] \notin DOMAIN ROMAN_VALUES THEN 0
    ELSE RomanLoopAdditive(roman, i - 1, total + ROMAN_VALUES[roman[i]],
                           ROMAN_VALUES[roman[i]])

\* roman_to_int that adds every symbol
roman_to_int_additive(roman) ==
    IF roman = <<>> THEN 0
    ELSE RomanLoopAdditive(upper(roman), Len(roman), 0, 0)

\* generate_placement_map.roman_to_int, lines 63-72
RECURSIVE RomanLoop(_, _, _, _)
RomanLoop(roman, i, total, prv) ==
    IF i = 0 THEN total
    ELSE IF roman[i] \notin DOMAIN ROMAN_VALUES THEN 0
    ELSE LET val == ROMAN_VALUES[roman[i]]
         IN  RomanLoop(roman, i - 1,
                       IF val < prv THEN total - val ELSE total + val, val)

roman_to_int(roman) ==
    IF roman = <<>> THEN 0
    ELSE RomanLoop(upper(roman), Len(roman), 0, 0)

\* suggest_placements.roman_to_int, lines 149-158
RECURSIVE SpRomanLoop(_, _, _, _)
SpRomanLoop(str, i, total, prv) ==
    IF i = 0 THEN total
    ELSE LET v == RomanGet(str[i])
         IN  IF v = 0 THEN 0
             ELSE SpRomanLoop(str, i - 1,
                              IF v < prv THEN total - v ELSE total + v, v)

sp_roman_to_int(str) ==
    IF str = <<>> THEN 0
    ELSE SpRomanLoop(upper(str), Len(str), 0, 0)

\* the standard numeral of n in 1..100
RomanUnits ==
    << <<"I">>, <<"I", "I">>, <<"I", "I", "I">>, <<"I", "V">>, <<"V">>,
       <<"V", "I">>, <<"V", "I", "I">>, <<"V", "I", "I", "I">>, <<"I", "X">> >>

RomanTens ==
    << <<"X">>, <<"X", "X">>, <<"X", "X", "X">>, <<"X", "L">>, <<"L">>,
       <<"L", "X">>, <<"L", "X", "X">>, <<"L", "X", "X", "X">>, <<"X", "C">> >>

IntToRoman(n) ==
    IF n = 100 THEN <<"C">>
    ELSE (IF n \div 10 = 0 THEN <<>> ELSE RomanTens[n \div 10])
            \o (IF n % 10 = 0 THEN <<>> ELSE RomanUnits[n % 10])

\* no placement file and no generator: only pure functions are called
Standalone ==
    /\ file = <<>>
    /\ input = <<>>
    /\ prev = <<>>
    /\ changes = <<>>
    /\ runs = 0
    /\ NoGenerator
    /\ NoTools

RomanInputs == SeqsUpTo(Chars, MaxRomanLen) \cup {IntToRoman(n) : n \in 1..100}

InitRoman ==
    /\ Standalone
    /\ \E str \in RomanInputs :
            call = [fn |-> "roman_to_int", args |-> str,
                    ret |-> [gpm |-> 0, sp |-> 0], done |-> FALSE]

\* both copies of roman_to_int applied to the same string
RomanToInt ==
    /\ call.fn = "roman_to_int"
    /\ ~call.done
    /\ call' = [call EXCEPT !.ret = [gpm |-> roman_to_int(call.args),
                                     sp |-> sp_roman_to_int(call.args)],
                            !.done = TRUE]
    /\ UNCHANGED <<normVars, genVars, toolVars>>

NextRoman == RomanToInt

SpecRoman == InitRoman /\ [][NextRoman]_vars

BOOK_NAME_MAP ==
    << [words |-> <<"genesis">>, key |-> "Genesis", len |-> 7],
       [words |-> <<"exodus">>, key |-> "Exodus", len |-> 6],
       [words |-> <<"leviticus">>, key |-> "Leviticus", len |-> 9],
       [words |-> <<"numbers">>, key |-> "Numbers", len |-> 7],
       [words |-> <<"deuteronomy">>, key |-> "Deuteronomy", len |-> 11],
       [words |-> <<"joshua">>, key |-> "Joshua", len |-> 6],
       [words |-> <<"judges">>, key |-> "Judges", len |-> 6],
       [words |-> <<"i", "samuel">>, key |-> "I_Samuel", len |-> 8],
       [words |-> <<"ii", "samuel">>, key |-> "II_Samuel", len |-> 9],
       [words |-> <<"i", "kings">>, key |-> "I_Kings", len |-> 7],
       [words |-> <<"ii", "kings">>, key |-> "II_Kings", len |-> 8],
       [words |-> <<"isaiah">>, key |-> "Isaiah", len |-> 6],
       [words |-> <<"jeremiah">>, key |-> "Jeremiah", len |-> 8],
       [words |-> <<"ezekiel">>, key |-> "Ezekiel", len |-> 7],
       [words |-> <<"hosea">>, key |-> "Hosea", len |-> 5],
       [words |-> <<"joel">>, key |-> "Joel", len |-> 4],
       [words |-> <<"amos">>, key |-> "Amos", len |-> 4],
       [words |-> <<"obadiah">>, key |-> "Obadiah", len |-> 7],
       [words |-> <<"jonah">>, key |-> "Jonah", len |-> 5],
       [words |-> <<"micah">>, key |-> "Micah", len |-> 5],
       [words |-> <<"nahum">>, key |-> "Nahum", len |-> 5],
       [words |-> <<"habakkuk">>, key |-> "Habakkuk", len |-> 8],
       [words |-> <<"zephaniah">>, key |-> "Zephaniah", len |-> 9],
       [words |-> <<"haggai">>, key |-> "Haggai", len |-> 6],
       [words |-> <<"zechariah">>, key |-> "Zechariah", len |-> 9],
       [words |-> <<"malachi">>, key |-> "Malachi", len |-> 7],
       [words |-> <<"psalms">>, key |-> "Psalms", len |-> 6],
       [words |-> <<"proverbs">>, key |-> "Proverbs", len |-> 8],
       [words |-> <<"job">>, key |-> "Job", len |-> 3],
       [words |-> <<"song", "of", "songs">>, key |-> "Song_of_Songs", len |-> 13],
       [words |-> <<"ruth">>, key |-> "Ruth", len |-> 4],
       [words |-> <<"lamentations">>, key |-> "Lamentations", len |-> 12],
       [words |-> <<"ecclesiastes">>, key |-> "Ecclesiastes", len |-> 12],
       [words |-> <<"esther">>, key |-> "Esther", len |-> 6],
       [words |-> <<"daniel">>, key |-> "Daniel", len |-> 6],
       [words |-> <<"ezra">>, key |-> "Ezra", len |-> 4],
       [words |-> <<"nehemiah">>, key |-> "Nehemiah", len |-> 8],
       [words |-> <<"i", "chronicles">>, key |-> "I_Chronicles", len |-> 12],
       [words |-> <<"ii", "chronicles">>, key |-> "II_Chronicles", len |-> 13] >>

\* str.lower() / re.IGNORECASE on a word
LowerWord(w) == CASE w = "II" -> "ii" [] w = "Samuel" -> "samuel" [] OTHER -> w

LowerToken(tok) == [k \in DOMAIN tok |-> LowerWord(tok[k])]

LowerText(text) == [i \in DOMAIN text |-> LowerToken(text[i])]

\* the characters of the words that are runs of Roman letters
WordChars(w) ==
    CASE w = "i" -> <<"i">> [] w = "ii" -> <<"i", "i">> [] w = "II" -> <<"I", "I">>
      [] OTHER -> <<>>

\* \d{1,3} and int(tok)
DigitValue(w) == CASE w = "5" -> 5 [] w = "17" -> 17 [] OTHER -> 0

\* \b([IVXLCDM]+|\d{1,3})\b matches this token: underscores are word
\* characters, so only a token of one word can match as a whole
IsNumeral(tok) ==
    /\ Len(tok) = 1
    /\ (WordChars(tok[1]) # <<>> \/ DigitValue(tok[1]) # 0)

\* the first numeric word among hay[from..to], "" if there is none
FirstNumeral(hay, from, to) ==
    LET hits == {j \in from..to : j \in DOMAIN hay /\ IsNumeral(hay[j])}
    IN  IF hits = {} THEN "" ELSE hay[SetMin(hits)][1]

\* int(tok) if tok.isdigit() else roman_to_int(tok); 0 stands for None
NumeralValue(w) ==
    IF w = "" THEN 0
    ELSE IF DigitValue(w) # 0 THEN DigitValue(w)
    ELSE roman_to_int(WordChars(w))

\* sorted(BOOK_NAME_MAP.keys(), key=len, reverse=True): a stable sort
RECURSIVE SortByLen(_)
SortByLen(S) ==
    IF S = {} THEN <<>>
    ELSE LET i == CHOOSE x \in S : \A y \in S :
                      \/ BOOK_NAME_MAP[x].len > BOOK_NAME_MAP[y].len
                      \/ (BOOK_NAME_MAP[x].len = BOOK_NAME_MAP[y].len /\ x <= y)
         IN  <<BOOK_NAME_MAP[i]>> \o SortByLen(S \ {i})

SortedBookKeys == SortByLen(DOMAIN BOOK_NAME_MAP)

\* re.search(rf"\b{book_key}\b", hay, IGNORECASE): index of the last token of
\* the first match, 0 if there is none
MatchEnd(hay, words) ==
    LET n    == Len(words)
        hits == {i \in 1..(Len(hay) - n + 1) :
                    \A k \in 1..n : /\ Len(hay[i + k - 1]) = 1
                                    /\ LowerWord(hay[i + k - 1][1]) = words[k]}
    IN  IF hits = {} THEN 0 ELSE SetMin(hits) + n - 1

\* the loop over the book keys (lines 86-106)
RECURSIVE ExtractLoop(_, _, _)
ExtractLoop(title, keys, refs) ==
    IF keys = <<>> THEN refs
    ELSE LET e    == Head(keys)
             end  == MatchEnd(title, e.words)
             tok  == IF end = 0 THEN "" ELSE FirstNumeral(title, end + 1, Len(title))
             chap == NumeralValue(tok)
         IN  ExtractLoop(title, Tail(keys),
                         IF chap = 0 THEN refs ELSE Append(refs, <<e.key, chap>>))

\* deduplicate while preserving order (lines 108-114)
RECURSIVE Unique(_)
Unique(refs) ==
    IF refs = <<>> THEN <<>>
    ELSE LET init == Unique(SubSeq(refs, 1, Len(refs) - 1))
             r    == refs[Len(refs)]
         IN  IF r \in Range(init) THEN init ELSE Append(init, r)

extract_refs_from_title(title) ==
    IF title = <<>> THEN <<>>
    ELSE Unique(ExtractLoop(title, SortedBookKeys, <<>>))

\* NAME_ALIASES (lines 129-138)
NAME_ALIASES ==
    << [words |-> <<"song", "of", "songs">>, key |-> "Song_of_Songs"],
       [words |-> <<"i", "samuel">>, key |-> "I_Samuel"],
       [words |-> <<"ii", "samuel">>, key |-> "II_Samuel"],
       [words |-> <<"i", "kings">>, key |-> "I_Kings"],
       [words |-> <<"ii", "kings">>, key |-> "II_Kings"],
       [words |-> <<"i", "chronicles">>, key |-> "I_Chronicles"],
       [words |-> <<"ii", "chronicles">>, key |-> "II_Chronicles"] >>

\* normalize_book_token that also takes the word david for I_Samuel
normalize_book_token_loose(tok) ==
    LET alias == {i \in DOMAIN NAME_ALIASES : NAME_ALIASES[i].words = tok}
        canon == {i \in DOMAIN BOOK_NAME_MAP : BOOK_NAME_MAP[i].words = tok}
    IN  IF alias # {} THEN NAME_ALIASES[SetMin(alias)].key
        ELSE IF canon # {} THEN BOOK_NAME_MAP[SetMin(canon)].key
        ELSE IF tok = <<"samuel">> \/ tok = <<"david">> THEN "I_Samuel"
        ELSE IF tok = <<"kings">> THEN "I_Kings"
        ELSE IF tok = <<"chronicles">> THEN "I_Chronicles"
        ELSE ""

\* normalize_book_token (lines 161-176) on a lower-case token; replacing the
\* underscores by spaces gives the words of the token; "" stands for None
normalize_book_token(tok) ==
    LET alias == {i \in DOMAIN NAME_ALIASES : NAME_ALIASES[i].words = tok}
        canon == {i \in DOMAIN BOOK_NAME_MAP : BOOK_NAME_MAP[i].words = tok}
    IN  IF alias # {} THEN NAME_ALIASES[SetMin(alias)].key
        ELSE IF canon # {} THEN BOOK_NAME_MAP[SetMin(canon)].key
        ELSE IF tok = <<"samuel">> THEN "I_Samuel"
        ELSE IF tok = <<"kings">> THEN "I_Kings"
        ELSE IF tok = <<"chronicles">> THEN "I_Chronicles"
        ELSE ""

\* "word" in hay, for a word of the vocabulary
InHay(hay, w) == \E i \in DOMAIN hay : \E k \in DOMAIN hay[i] : hay[i][k] = w

\* the fallbacks by subject (lines 199-204)
SubjectChapter(hay, book) ==
    IF InHay(hay, "goliath")
    THEN (IF book \in {"I_Samuel", "II_Samuel"} THEN 17 ELSE 0)
    ELSE IF InHay(hay, "ladder")
    THEN (IF book = "Genesis" THEN 28 ELSE 0)
    ELSE IF InHay(hay, "isaac") /\ InHay(hay, "sacrifice")
    THEN (IF book = "Genesis" THEN 22 ELSE 0)
    ELSE 0

\* one iteration of the loop over the tokens (lines 186-211); the
\* confidences 0.30 and 0.55 are counted in hundredths
HeuristicStep(hay, i, suggestions) ==
    LET book == normalize_book_token(hay[i])
    IN  IF book = "" THEN suggestions
        ELSE LET g     == FirstNumeral(hay, i + 1, i + 5)
                 chap0 == NumeralValue(g)
                 chap  == IF chap0 # 0 THEN chap0 ELSE SubjectChapter(hay, book)
             IN  IF chap = 0
                 THEN Append(suggestions, [book |-> book, chap |-> 1, conf |-> 30])
                 ELSE Append(suggestions, [book |-> book, chap |-> chap, conf |-> 55])

RECURSIVE HeuristicLoop(_, _, _)
HeuristicLoop(hay, i, suggestions) ==
    IF i > Len(hay) THEN suggestions
    ELSE HeuristicLoop(hay, i + 1, HeuristicStep(hay, i, suggestions))

\* the dict dedup (lines 214-218): one suggestion per (book, chapter), the
\* first of the highest confidence, in order of first insertion
RECURSIVE DedupSuggestions(_)
DedupSuggestions(suggestions) ==
    IF suggestions = <<>> THEN <<>>
    ELSE LET init == DedupSuggestions(SubSeq(suggestions, 1, Len(suggestions) - 1))
             s    == suggestions[Len(suggestions)]
             at   == {i \in DOMAIN init : init[i].book = s.book /\ init[i].chap = s.chap}
         IN  IF at = {} THEN Append(init, s)
             ELSE IF s.conf > init[SetMin(at)].conf
             THEN [init EXCEPT ![SetMin(at)] = s]
             ELSE init

\* the sort key (-conf, BOOKS.index(book), chapter) of line 221
SuggestionKey(s) ==
    LET pos == {i \in DOMAIN book_order : book_order[i] = s.book}
    IN  <<0 - s.conf, IF pos # {} THEN SetMin(pos) - 1 ELSE 9999, s.chap>>

\* out.sort(key=...): a stable sort
RECURSIVE SortSuggestions(_, _)
SortSuggestions(out, S) ==
    IF S = {} THEN <<>>
    ELSE LET i == CHOOSE x \in S : \A y \in S :
                      \/ (SuggestionKey(out[x]) # SuggestionKey(out[y])
                            /\ TupleLE(SuggestionKey(out[x]), SuggestionKey(out[y])))
                      \/ (SuggestionKey(out[x]) = SuggestionKey(out[y]) /\ x <= y)
         IN  <<out[i]>> \o SortSuggestions(out, S \ {i})

\* heuristic_suggest (lines 179-222); filename and title are texts
heuristic_suggest(filename, title) ==
    LET hay  == LowerText(filename \o title)
        out  == DedupSuggestions(HeuristicLoop(hay, 1, <<>>))
        srt  == SortSuggestions(out, DOMAIN out)
    IN  SubSeq(srt, 1, IF Len(srt) < 3 THEN Len(srt) ELSE 3)

\* the tokens of the explored texts
Tokens ==
    { <<"i">>, <<"ii">>, <<"II">>, <<"samuel">>, <<"Samuel">>, <<"genesis">>,
      <<"5">>, <<"david">>, <<"goliath">>,
      <<"i", "samuel">>, <<"II", "Samuel">>, <<"david", "goliath">> }

Titles == SeqsUpTo(Tokens, MaxTokens)

\* "", "david_goliath.jpg", "ii_samuel_5.jpg"
Filenames ==
    { <<>>, << <<"david", "goliath">>, <<"jpg">> >>,
      << <<"ii", "samuel", "5">>, <<"jpg">> >> }

InitParse ==
    /\ Standalone
    /\ \E fn \in Filenames, title \in Titles :
            call = [fn |-> "parse", args |-> [filename |-> fn, title |-> title],
                    ret |-> [suggestions |-> <<>>, refs |-> <<>>], done |-> FALSE]

\* both parsers applied to the same image
ParseReference ==
    /\ call.fn = "parse"
    /\ ~call.done
    /\ call' = [call EXCEPT
                  !.ret = [suggestions |-> heuristic_suggest(call.args.filename,
                                                            call.args.title),
                           refs |-> extract_refs_from_title(call.args.title)],
                  !.done = TRUE]
    /\ UNCHANGED <<normVars, genVars, toolVars>>

NextParse == ParseReference

SpecParse == InitParse /\ [][NextParse]_vars

\* the words of a text, underscores taken as separators, in lower case
WordsOf(text) == UNION {Range(LowerToken(text[i])) : i \in DOMAIN text}

\* the words that name a book: the last word of each human book name
\* (genesis, ..., samuel, kings, chronicles, songs, ...)
BookNameWords ==
    {BOOK_NAME_MAP[i].words[Len(BOOK_NAME_MAP[i].words)] : i \in DOMAIN BOOK_NAME_MAP}

HasBookName(text) == WordsOf(text) \cap BookNameWords # {}

\* C14: for a file name and a title in which no book name occurs, the empty
\* title included, heuristic_suggest and extract_refs_from_title both return
\* the empty list.
C14_NoBookNoSuggestion ==
    (call.fn = "parse" /\ call.done
        /\ ~HasBookName(call.args.filename \o call.args.title))
    => (call.ret.suggestions = <<>> /\ call.ret.refs = <<>>)

\* a parsed title with a numeral and a subject word but no book name
C14_Witness ==
    /\ call.fn = "parse"
    /\ call.done
    /\ ~HasBookName(call.args.filename \o call.args.title)
    /\ \E i \in DOMAIN call.args.title : IsNumeral(call.args.title[i])
    /\ InHay(call.args.title, "goliath")
    /\ call.ret.suggestions = <<>>
    /\ call.ret.refs = <<>>

\* ------------------------------------------------------------------------
\* generate_tanakh.py: the targets of _build_balanced_placements
\* ------------------------------------------------------------------------
\* the chapter counts of the registry
RegistryChapters == {books[i].chapters : i \in DOMAIN books}

InitTargets ==
    /\ Standalone
    /\ \E n \in 1..MaxFiles, c \in RegistryChapters :
            call = [fn |-> "targets", args |-> [filenames |-> n, chapters |-> c],
                    ret |-> <<>>, done |-> FALSE]

\* lines 376-380: count and the list targets for a book with that many file
\* names and chapters
ComputeTargets ==
    /\ call.fn = "targets"
    /\ ~call.done
    /\ LET chapters == call.args.chapters
           count    == IF call.args.filenames < chapters
                       THEN call.args.filenames ELSE chapters
       IN  call' = [call EXCEPT
                      !.ret = [k \in 1..count |-> BalancedTarget(k - 1, chapters, count)],
                      !.done = TRUE]
    /\ UNCHANGED <<normVars, genVars, toolVars>>

NextTargets == ComputeTargets

SpecTargets == InitTargets /\ [][NextTargets]_vars

\* C15: the targets computed for a book, before any probing, are pairwise
\* distinct chapters of the book (count never exceeds the chapter count).
C15_TargetsDistinct ==
    (call.fn = "targets" /\ call.done) =>
        /\ Len(call.ret) <= call.args.chapters
        /\ \A j \in DOMAIN call.ret :
              /\ call.ret[j] \in 1..call.args.chapters
              /\ \A k \in DOMAIN call.ret : call.ret[j] = call.ret[k] => j = k

\* as many images as the book has chapters, and at least three of them
C15_Witness ==
    /\ call.fn = "targets"
    /\ call.done
    /\ Len(call.ret) >= 3
    /\ Len(call.ret) = call.args.chapters

\* ------------------------------------------------------------------------
\* Tools that rewrite chagall_placement_map.json side by side:
\* fix_placements.main and suggest_placements.main
\* ------------------------------------------------------------------------
\* save_json that writes only the keys the file does not have yet
save_json_add_only(current, obj) ==
    current \o SelectSeq(obj, LAMBDA e : e.fn \notin Keys(current))

\* path.write_text(json.dumps(obj)): the file becomes obj, whatever it was
save_json(current, obj) == obj

\* the used set of allocate_next_free_chapter (lines 299-308)
AllocUsed(book, placement) ==
    {placement[i].refs[1].chap : i \in
        {j \in DOMAIN placement :
            /\ placement[j].refs # <<>>
            /\ placement[j].refs[1].wf
            /\ placement[j].refs[1].book = book}}

\* allocate_next_free_chapter that always grants the desired chapter
allocate_desired(book, desired_chap, placement) == desired_chap

\* allocate_next_free_chapter (lines 288-318)
allocate_next_free_chapter(book, desired_chap, placement) ==
    LET max_chaps == ChapterCount(book)
        used      == AllocUsed(book, placement)
        cand      == ScanDown(max_chaps, used)
    IN  IF max_chaps = 0 THEN desired_chap
        ELSE IF desired_chap \notin used THEN desired_chap
        ELSE IF cand # 0 THEN cand
        ELSE desired_chap

\* the items of chagall_download_config.json
config_items == SubSeq(FileNames, 1, MaxItems)

Event(by, op, map, mem, own) ==
    [by |-> by, op |-> op, map |-> map, mem |-> mem, own |-> own]

\* fix_placements.main, line 84
FixerRead ==
    /\ fixer.pc = "start"
    /\ fixer' = [pc |-> "loaded", data |-> file, own |-> {}]
    /\ events' = Append(events, Event("fixer", "read", file, file, {}))
    /\ UNCHANGED <<normVars, genVars, call, assigner>>

\* fix_placements.main, lines 86-141
FixerWrite ==
    /\ fixer.pc = "loaded"
    /\ \E r \in {Normalize(fixer.data)} :
          LET own == {r.changes[k].fn : k \in DOMAIN r.changes}
          IN  /\ file' = save_json(file, r.data)
              /\ changes' = r.changes
              /\ fixer' = [pc |-> "done", data |-> r.data, own |-> own]
              /\ events' = Append(events, Event("fixer", "write",
                                                save_json(file, r.data), r.data, own))
    /\ prev' = fixer.data
    /\ runs' = runs + 1
    /\ UNCHANGED <<input, genVars, call, assigner>>

\* suggest_placements.main, line 371
AssignerLoad ==
    /\ assigner.pc = "start"
    /\ assigner' = [pc |-> "loop", placement |-> file, idx |-> 1, own |-> {}]
    /\ events' = Append(events, Event("assigner", "read", file, file, {}))
    /\ UNCHANGED <<normVars, genVars, call, fixer>>

\* an accepted placement (auto-accept 410-421, pick 461-474 and 512-525,
\* manual 442-460 and 493-511) of book b, chapter c for the current item
AssignerAccept(b, c) ==
    /\ assigner.pc = "loop"
    /\ assigner.idx <= Len(config_items)
    /\ LET fn  == config_items[assigner.idx]
           c2  == allocate_next_free_chapter(b, c, assigner.placement)
           new == SetItem(assigner.placement, fn, <<RefStr(b, c2)>>)
           own == assigner.own \cup {fn}
       IN  /\ assigner' = [assigner EXCEPT !.placement = new, !.idx = @ + 1,
                                           !.own = own]
           /\ file' = save_json(file, new)
           /\ events' = Append(events, Event("assigner", "write",
                                             save_json(file, new), new, own))
           \* the call is kept for the runs of the tool on its own
           /\ call' = IF call.fn = "" THEN call
                      ELSE [fn |-> "allocate_next_free_chapter",
                            args |-> [fn |-> fn, book |-> b, desired_chap |-> c,
                                      placement |-> assigner.placement],
                            ret |-> c2, done |-> TRUE]
    /\ UNCHANGED <<input, prev, changes, runs, genVars, fixer>>

\* an item passed over: a cover, or a mapped one under --only-unmapped
\* (lines 382-396)
AssignerSkip ==
    /\ assigner.pc = "loop"
    /\ assigner.idx <= Len(config_items)
    /\ assigner' = [assigner EXCEPT !.idx = @ + 1]
    /\ UNCHANGED <<normVars, genVars, call, fixer, events>>

\* the operator stops at an item (lines 438-441, 489-492), or the items are
\* through (line 531): the map is saved and the tool ends
AssignerQuit ==
    /\ assigner.pc = "loop"
    /\ assigner' = [assigner EXCEPT !.pc = "done"]
    /\ file' = save_json(file, assigner.placement)
    /\ events' = Append(events, Event("assigner", "write",
                                      save_json(file, assigner.placement),
                                      assigner.placement, assigner.own))
    /\ UNCHANGED <<input, prev, changes, runs, genVars, call, fixer>>

\* the placements that the operator accepts
AcceptBooks == {"Haggai", "Obadiah"}

\* the placement files that the tools start from
ToolValues == {<<RefStr(b, c)>> : b \in AcceptBooks, c \in 1..MaxChapter}

InitTools ==
    /\ \E n \in 0..MaxItems : \E vs \in [1..n -> ToolValues] : file = MapOf(vs)
    /\ input = file
    /\ prev = file
    /\ changes = <<>>
    /\ runs = 0
    /\ NoGenerator
    /\ call = Idle
    /\ fixer = [pc |-> "start", data |-> <<>>, own |-> {}]
    /\ assigner = [pc |-> "start", placement |-> <<>>, idx |-> 0, own |-> {}]
    /\ events = <<>>

NextTools ==
    \/ FixerRead
    \/ FixerWrite
    \/ AssignerLoad
    \/ \E b \in AcceptBooks, c \in 1..MaxChapter : AssignerAccept(b, c)
    \/ AssignerSkip
    \/ AssignerQuit

SpecTools == InitTools /\ [][NextTools]_vars

\* the value list of a file name in a map; Absent for a missing key
Absent == <<NoRef, NoRef>>

ValueOf(data, fn) ==
    IF fn \in Keys(data)
    THEN data[CHOOSE i \in DOMAIN data : data[i].fn = fn].refs
    ELSE Absent

\* the event at which the writer of event j read the file
ReadOf(j) ==
    CHOOSE r \in 1..j : events[r].op = "read" /\ events[r].by = events[j].by

\* the file just before event i
FileBefore(i) ==
    LET ws == {k \in 1..(i - 1) : events[k].op = "write"}
    IN  IF ws = {} THEN input ELSE events[SetMax(ws)].map

\* the file names whose value the write event i changed, added or removed
ChangedBy(i) ==
    {fn \in Keys(events[i].map) \cup Keys(FileBefore(i)) :
        ValueOf(events[i].map, fn) # ValueOf(FileBefore(i), fn)}

\* C16: every write replaces the file by the writer's in-memory map; what
\* the other tool wrote between the writer's read and this write is gone:
\* each entry the other tool changed, unless the writer assigned it itself,
\* is back at the value the writer read.
C16_LastWriterWins ==
    /\ \A j \in DOMAIN events :
          events[j].op = "write" =>
              /\ events[j].map = events[j].mem
              /\ \A i \in (ReadOf(j) + 1)..(j - 1) :
                    (events[i].op = "write" /\ events[i].by # events[j].by) =>
                        \A fn \in ChangedBy(i) \ events[j].own :
                            /\ ValueOf(events[j].map, fn)
                                  = ValueOf(events[ReadOf(j)].map, fn)
                            /\ ValueOf(events[j].map, fn) # ValueOf(events[i].map, fn)
    /\ file = FileBefore(Len(events) + 1)

\* both tools had read the file when the first of them wrote, and the later
\* write removed a change of the earlier one
C16_Witness ==
    \E j \in DOMAIN events :
        /\ events[j].op = "write"
        /\ file = events[j].map
        /\ \E i \in (ReadOf(j) + 1)..(j - 1) :
              /\ events[i].op = "write"
              /\ events[i].by # events[j].by
              /\ ReadOf(i) < j
              /\ ChangedBy(i) \ events[j].own # {}

PlacedAt(book, chap) ==
    {chagall_chapter_map[i].fn : i \in
        {j \in DOMAIN chagall_chapter_map :
            /\ chagall_chapter_map[j].book = book
            /\ chagall_chapter_map[j].chap = chap
            /\ chagall_chapter_map[j].fn \notin used_images}}

SourceOf(fn) == SourceBook(all_chagall_images, fn)

UsageOf(fn) ==
    IF SourceOf(fn) \in DOMAIN source_book_usage_counts
    THEN source_book_usage_counts[SourceOf(fn)] ELSE 0

\* position of the source book in the registry, sources outside it last
RegistryPos(fn) ==
    LET at == {i \in DOMAIN books : books[i].name = SourceOf(fn)}
    IN  IF at = {} THEN Len(books) + 1 ELSE SetMin(at)

\* f comes no later than g in the order of the four criteria
NoLater(f, g, book) ==
    \/ SourceOf(f) = book /\ SourceOf(g) # book
    \/ /\ (SourceOf(f) = book) = (SourceOf(g) = book)
       /\ \/ UsageOf(f) < UsageOf(g)
          \/ /\ UsageOf(f) = UsageOf(g)
             /\ \/ RegistryPos(f) < RegistryPos(g)
                \/ /\ RegistryPos(f) = RegistryPos(g)
                   /\ FileRank(f) <= FileRank(g)

\* C18: a chapter that takes one of several unused images placed at it
\* takes the least of them: source book equal to the book of the chapter
\* first, then the lower usage count of the source book, then the earlier
\* registry position of the source book, then the smaller file name.
C18_TieBreak ==
    [][(ChapterReturned /\ ~explicit_enabled
            /\ last'.filename \in PlacedAt(CurrentBook, chapter_num))
        => \A g \in PlacedAt(CurrentBook, chapter_num) :
               NoLater(last'.filename, g, CurrentBook)]_vars

\* a chapter took the image of a source book that comes later in the
\* registry order because that source book had been used less
C18_Witness ==
    /\ last.kind = "chapter"
    /\ last.filename # ""
    /\ \E i \in DOMAIN chagall_chapter_map :
          LET g == chagall_chapter_map[i].fn
          IN  /\ chagall_chapter_map[i].book = last.book
              /\ chagall_chapter_map[i].chap = last.chapter
              /\ g # last.filename
              /\ g \notin used_images
              /\ SourceOf(g) # last.book
              /\ SourceOf(last.filename) # last.book
              /\ RegistryPos(g) < RegistryPos(last.filename)

\* ------------------------------------------------------------------------
\* suggest_placements.main on its own, the last call of
\* allocate_next_free_chapter kept in call
\* ------------------------------------------------------------------------
InitAssign ==
    /\ \E n \in 0..MaxItems : \E vs \in [1..n -> ToolValues] : file = MapOf(vs)
    /\ input = file
    /\ prev = file
    /\ changes = <<>>
    /\ runs = 0
    /\ NoGenerator
    /\ call = [fn |-> "allocate_next_free_chapter", args |-> <<>>, ret |-> 0,
               done |-> FALSE]
    /\ fixer = [pc |-> "off", data |-> <<>>, own |-> {}]
    /\ assigner = [pc |-> "start", placement |-> <<>>, idx |-> 0, own |-> {}]
    /\ events = <<>>

NextAssign ==
    \/ AssignerLoad
    \/ \E b \in AcceptBooks, c \in 1..MaxChapter : AssignerAccept(b, c)
    \/ AssignerSkip
    \/ AssignerQuit

SpecAssign == InitAssign /\ [][NextAssign]_vars

\* ------------------------------------------------------------------------
\* Properties of the book-name matching
\* ------------------------------------------------------------------------
\* the title is "II Samuel" in any case followed by the chapter 5, and there
\* is no file name
NumberedBookTitle ==
    /\ call.fn = "parse"
    /\ call.done
    /\ call.args.filename = <<>>
    /\ Len(call.args.title) = 3
    /\ LowerToken(call.args.title[1]) = <<"ii">>
    /\ LowerToken(call.args.title[2]) = <<"samuel">>
    /\ call.args.title[3] = <<"5">>

\* C24: for the title "II Samuel 5" both parsers give the reference
\* II_Samuel 5 and neither gives a reference to I_Samuel.
C24_LongestName ==
    NumberedBookTitle =>
        /\ call.ret.refs = << <<"II_Samuel", 5>> >>
        /\ call.ret.suggestions # <<>>
        /\ \A k \in DOMAIN call.ret.suggestions :
              /\ call.ret.suggestions[k].book = "II_Samuel"
              /\ call.ret.suggestions[k].chap = 5

\* ------------------------------------------------------------------------
\* generate_tanakh.py: fetch_text (generate_chumash.fetch_chapter is the
\* same loop)
\* ------------------------------------------------------------------------
max_retries == 3

\* what one requests.get and response.json() can do: raise (timeout,
\* connection error), answer with another status than 200, answer 200 with a
\* body that is not JSON, answer 200 with a JSON body
ResponseBodies == {"verses", "no_he", "no_text", "empty"}

AttemptOutcomes ==
    {[kind |-> "exception", body |-> ""],
     [kind |-> "status", body |-> ""],
     [kind |-> "undecodable", body |-> ""]}
        \cup {[kind |-> "json", body |-> b] : b \in ResponseBodies}

\* the try block with response.json() called outside of it
TryBlockJsonOutside(outcome) ==
    CASE outcome.kind = "json" -> "return"
      [] outcome.kind = "status" -> "next"
      [] outcome.kind = "exception" -> "caught"
      [] outcome.kind = "undecodable" -> "raise"

\* the try block of one attempt (lines 455-461): return, fall through to the
\* next attempt, or catch the exception
TryBlock(outcome) ==
    CASE outcome.kind = "json" -> "return"
      [] outcome.kind = "status" -> "next"
      [] outcome.kind = "exception" -> "caught"
      [] outcome.kind = "undecodable" -> "caught"

InitFetch ==
    /\ Standalone
    /\ \E b \in {"I_Samuel", "Haggai"} :
          call = [fn |-> "fetch_text",
                  args |-> [book |-> b, chapter |-> 1, attempt |-> 0,
                            seen |-> <<>>, slept |-> 0],
                  ret |-> <<>>, done |-> FALSE]

\* one pass of "for attempt in range(max_retries)" (lines 454-461)
FetchAttempt ==
    /\ call.fn = "fetch_text"
    /\ ~call.done
    /\ call.args.attempt < max_retries
    /\ \E outcome \in AttemptOutcomes :
          LET did  == TryBlock(outcome)
              args == [call.args EXCEPT
                         !.attempt = @ + 1,
                         !.seen = Append(@, outcome),
                         !.slept = IF did = "caught" /\ call.args.attempt < max_retries - 1
                                   THEN @ + 1 ELSE @]
          IN  call' = CASE did = "return" ->
                             [call EXCEPT !.args = args, !.done = TRUE,
                                          !.ret = [kind |-> "return", value |-> outcome.body]]
                        [] did = "raise" ->
                             [call EXCEPT !.args = args, !.done = TRUE,
                                          !.ret = [kind |-> "raise", value |-> ""]]
                        [] OTHER -> [call EXCEPT !.args = args]
    /\ UNCHANGED <<normVars, genVars, toolVars>>

\* the loop is through: return {} (line 462)
FetchGiveUp ==
    /\ call.fn = "fetch_text"
    /\ ~call.done
    /\ call.args.attempt >= max_retries
    /\ call' = [call EXCEPT !.done = TRUE,
                            !.ret = [kind |-> "return", value |-> "empty"]]
    /\ UNCHANGED <<normVars, genVars, toolVars>>

NextFetch == FetchAttempt \/ FetchGiveUp

SpecFetch == InitFetch /\ [][NextFetch]_vars

\* C23: fetch_text makes at most 3 attempts; it never raises; what it
\* returns is the decoded body of the first attempt that answered 200 with
\* a decodable body, every attempt before it having failed, or the empty
\* result after three failed attempts.
C23_BoundedRetry ==
    call.fn = "fetch_text" =>
        /\ call.args.attempt <= 3
        /\ Len(call.args.seen) = call.args.attempt
        /\ \A k \in 1..(Len(call.args.seen) - 1) : call.args.seen[k].kind # "json"
        /\ call.done =>
              /\ call.ret.kind = "return"
              /\ LET n == Len(call.args.seen)
                 IN  IF n > 0 /\ call.args.seen[n].kind = "json"
                     THEN call.ret.value = call.args.seen[n].body
                     ELSE n = 3 /\ call.ret.value = "empty"

\* a body that is not JSON, then an exception, then no 200: nothing is
\* returned but the empty result
C23_Witness ==
    /\ call.fn = "fetch_text"
    /\ call.done
    /\ call.ret = [kind |-> "return", value |-> "empty"]
    /\ call.args.seen[1].kind = "undecodable"
    /\ call.args.seen[2].kind = "exception"
    /\ call.args.seen[3].kind = "status"

\* ------------------------------------------------------------------------
\* Properties of the duplicate repair
\* ------------------------------------------------------------------------
\* the move-dup lines of the run, in the order they were appended
DupLines == SelectSeq(changes, LAMBDA l : l.reason = "move-dup")

\* the map after the range repairs of the run
AfterRange == Relocated(Len(FixLines))

\* the chapters of the book in use when the k-th move-dup line was written
UsedBefore(k, book) ==
    {PrimaryChapter(AfterRange, i) : i \in EntriesOf(AfterRange, book)}
        \cup {DupLines[j].new : j \in {m \in 1..(k - 1) : DupLines[m].book = book}}

FreeBefore(k, book) == (1..ChapterCount(book)) \ UsedBefore(k, book)

\* C21 as stated: two displaced images of one book never receive the same
\* chapter.
C21_DisplacedDistinct ==
    runs >= 1 =>
        \A k, m \in DOMAIN DupLines :
            (k # m /\ DupLines[k].book = DupLines[m].book)
                => DupLines[k].new # DupLines[m].new

\* C21 amended: the first entry met at a chapter keeps it; every other
\* claimant goes to the highest chapter of the book not in use when it is
\* moved, earlier moves counted, or to the last chapter when none is free;
\* chapters are walked in ascending order; two displaced images of one book
\* receive the same chapter only when no chapter was free for the later one.
C21_DuplicateRepair ==
    runs >= 1 =>
        /\ \A k \in DOMAIN DupLines :
              LET l    == DupLines[k]
                  i    == PosIn(prev, l.fn)
                  free == FreeBefore(k, l.book)
              IN  /\ i \in Collisions(AfterRange, l.book)
                  /\ l.old = PrimaryChapter(AfterRange, i)
                  /\ l.new = IF free # {} THEN SetMax(free) ELSE ChapterCount(l.book)
                  /\ file[i].refs = <<RefStr(l.book, l.new)>>
                  /\ \A m \in 1..(k - 1) :
                        DupLines[m].book = l.book =>
                            /\ DupLines[m].old <= l.old
                            /\ DupLines[m].new = l.new => free = {}
        /\ \A b \in KnownBooks : \A i \in EntriesOf(AfterRange, b) :
              IF i \in Collisions(AfterRange, b)
              THEN \/ \E k \in DOMAIN DupLines : DupLines[k].fn = prev[i].fn
                   \/ /\ PrimaryChapter(AfterRange, i) = ChapterCount(b)
                      /\ file[i] = AfterRange[i]
              ELSE file[i] = AfterRange[i]

\* three entries at one chapter of a book with room: the second and the
\* third went to two different chapters
C21_Witness ==
    /\ runs = 1
    /\ Len(DupLines) = 2
    /\ DupLines[1].book = DupLines[2].book
    /\ DupLines[1].old = DupLines[2].old
    /\ DupLines[1].new = ChapterCount(DupLines[1].book)
    /\ DupLines[2].new = ChapterCount(DupLines[1].book) - 1
    /\ PosIn(prev, DupLines[1].fn) < PosIn(prev, DupLines[2].fn)

\* ------------------------------------------------------------------------
\* Properties of the balanced targets
\* ------------------------------------------------------------------------
Clamp(lo, hi, x) == IF x < lo THEN lo ELSE IF x > hi THEN hi ELSE x

\* t is num / den rounded to a nearest integer, ties either way
Nearest(t, num, den) == 2 * (t * den - num) <= den /\ 2 * (num - t * den) <= den

\* C22: the target of the i-th image (from 0) among count images of a book
\* with that many chapters is (i+1) * (chapters+1) / (count+1) rounded to a
\* nearest integer and clamped to 1..chapters.
C22_RoundedTarget ==
    (call.fn = "targets" /\ call.done) =>
        \A k \in DOMAIN call.ret :
            \E t \in 0..(call.args.chapters + 1) :
                /\ Nearest(t, k * (call.args.chapters + 1), Len(call.ret) + 1)
                /\ call.ret[k] = Clamp(1, call.args.chapters, t)

\* ------------------------------------------------------------------------
\* Properties of the interactive assigner
\* ------------------------------------------------------------------------
\* the step accepts a placement
AcceptStep == call'.fn = "allocate_next_free_chapter" /\ call'.done /\ call' # call

\* the chapters of the book that some entry of the map holds
HeldChapters(data, book) ==
    {PrimaryChapter(data, i) : i \in EntriesOf(data, book)}

NoCollision(data) == \A b \in AcceptBooks : Collisions(data, b) = {}

\* C25: allocate_next_free_chapter returns the desired chapter if no entry
\* holds it, else the highest chapter of the book that no entry holds, else
\* the desired chapter; an accepted placement made on a map without shared
\* chapters leaves the map without shared chapters, provided the desired
\* chapter was not taken or the book had a free chapter.
C25_DistinctKept ==
    /\ [](call.fn = "allocate_next_free_chapter" /\ call.done =>
            LET held == HeldChapters(call.args.placement, call.args.book)
                free == FreeChapters(call.args.placement, call.args.book)
            IN  call.ret = IF call.args.desired_chap \notin held
                           THEN call.args.desired_chap
                           ELSE IF free # {} THEN SetMax(free)
                           ELSE call.args.desired_chap)
    /\ [][(AcceptStep /\ NoCollision(assigner.placement)
             /\ \/ call'.args.desired_chap
                        \notin HeldChapters(assigner.placement, call'.args.book)
                \/ FreeChapters(assigner.placement, call'.args.book) # {})
            => NoCollision(assigner'.placement)]_vars

\* the desired chapter was held by another image, the accepted image went
\* to the highest free chapter and the two share nothing
C25_Witness ==
    /\ call.fn = "allocate_next_free_chapter"
    /\ call.done
    /\ call.ret # call.args.desired_chap
    /\ \E i \in DOMAIN call.args.placement :
          /\ call.args.placement[i].fn # call.args.fn
          /\ call.args.placement[i].refs =
                <<RefStr(call.args.book, call.args.desired_chap)>>
    /\ Cardinality(EntriesOf(assigner.placement, call.args.book)) = 2
    /\ NoCollision(assigner.placement)

\* C30: accepting for an image the book and chapter it already holds leaves
\* the placement map as it was.
C30_ReconfirmKeeps ==
    (call.fn = "allocate_next_free_chapter" /\ call.done
        /\ \E i \in DOMAIN call.args.placement :
              /\ call.args.placement[i].fn = call.args.fn
              /\ call.args.placement[i].refs =
                    <<RefStr(call.args.book, call.args.desired_chap)>>)
    => assigner.placement = call.args.placement

\* ------------------------------------------------------------------------
\* Properties of strict mode and of chapters without text
\* ------------------------------------------------------------------------
\* C26: in strict mode a chapter that returns has the image that
\* explicit_chapter_map names for it, or none when the mapping has no entry.
C26_StrictNoFallback ==
    [][(explicit_enabled /\ ChapterReturned)
        => last'.filename = ChapterGet(explicit_chapter_map, CurrentBook, chapter_num)]_vars

\* a strict chapter without explicit entry got no image although the
\* balanced slot or the placement map had an unused one for it
C26_Witness ==
    /\ explicit_enabled
    /\ last.kind = "chapter"
    /\ last.filename = ""
    /\ ChapterGet(explicit_chapter_map, last.book, last.chapter) = ""
    /\ \/ /\ ChapterGet(balanced_chapter_map, last.book, last.chapter) # ""
          /\ ChapterGet(balanced_chapter_map, last.book, last.chapter)
                \notin used_images
       \/ PlacedAt(last.book, last.chapter) # {}

\* C27: a chapter for which the text source has no content does not end
\* the run and takes no image: the usage records, the used set and the
\* counters stay as they are, and the image the chapter would have had is
\* still unused.
C27_NoTextNoImage ==
    [][(replay.mode = "fixed" /\ Running /\ chapter_num >= 1
            /\ <<CurrentBook, chapter_num>> \in replay.no_text)
        => /\ pc' = "run"
           /\ last'.kind = "no-text"
           /\ UNCHANGED <<image_usages, used_images, source_book_usage_counts,
                          selected>>
           /\ LET r == select_chapter_image(CurrentBook, chapter_num)
              IN  (r.raise = "" /\ r.image_file # "")
                      => r.image_file \notin used_images']_vars

\* I_Samuel 2 had no text, and the only image placed at it was taken by
\* Haggai later in the run
C27_Witness ==
    /\ replay.mode = "fixed"
    /\ <<"I_Samuel", 2>> \in replay.no_text
    /\ Len(chagall_chapter_map) = 1
    /\ chagall_chapter_map[1].book = "I_Samuel"
    /\ chagall_chapter_map[1].chap = 2
    /\ \E k \in DOMAIN selected :
          /\ selected[k].filename = chagall_chapter_map[1].fn
          /\ selected[k].book = "Haggai"

\* ------------------------------------------------------------------------
\* Properties of the ledger
\* ------------------------------------------------------------------------
RECURSIVE SumOver(_, _)
SumOver(counts, keys) ==
    IF keys = {} THEN 0
    ELSE LET k == CHOOSE k \in keys : TRUE
         IN  counts[k] + SumOver(counts, keys \ {k})

\* C28: in heuristic mode the source-book counters add up to the number of
\* used file names, which is the number of usage records, and no file name
\* has two usage records.
C28_LedgerConsistent ==
    (~explicit_enabled /\ pc # "idle") =>
        /\ SumOver(source_book_usage_counts, DOMAIN source_book_usage_counts)
              = Cardinality(used_images)
        /\ Cardinality(used_images) = Len(image_usages)
        /\ used_images = {image_usages[i].filename : i \in DOMAIN image_usages}
        /\ \A i, j \in DOMAIN image_usages :
              image_usages[i].filename = image_usages[j].filename => i = j

\* a heuristic run that used a General image and an image of a book, one
\* for an intro and one for a chapter
C28_Witness ==
    /\ ~explicit_enabled
    /\ pc = "written"
    /\ Len(image_usages) >= 3
    /\ source_book_usage_counts["General"] >= 1
    /\ source_book_usage_counts["I_Samuel"] >= 1
    /\ \E i, j \in DOMAIN image_usages :
          image_usages[i].kind = "intro" /\ image_usages[j].kind = "chapter"

\* ------------------------------------------------------------------------
\* Properties of what the normalizer leaves alone
\* ------------------------------------------------------------------------
\* the entry is out of range or is not the first at its chapter once the
\* range repairs are made
Reassignable(i) ==
    \E b \in KnownBooks :
        i \in OutOfRange(prev, b) \/ i \in Collisions(AfterRange, b)

\* C29: a run keeps the entries in their order; an entry that is in range
\* and no displaced duplicate keeps its whole list of references, trailing
\* ones included; an entry with a change line has exactly one reference,
\* the new one; every other entry is as it was.
C29_OnlyReassignedChange ==
    runs >= 1 =>
        /\ Len(file) = Len(prev)
        /\ \A i \in DOMAIN prev :
              /\ file[i].fn = prev[i].fn
              /\ ~Reassignable(i) => file[i].refs = prev[i].refs
              /\ IF LinesOf(prev[i].fn) = {}
                 THEN file[i].refs = prev[i].refs
                 ELSE \E k \in LinesOf(prev[i].fn) :
                        file[i].refs = <<RefStr(changes[k].book, changes[k].new)>>

\* an entry with a trailing reference kept both while another entry with a
\* trailing reference was reassigned and lost it
C29_Witness ==
    /\ runs = 1
    /\ \E i, j \in DOMAIN prev :
          /\ Len(prev[i].refs) = 2
          /\ file[i].refs = prev[i].refs
          /\ ~Foreign(prev[i])
          /\ i < j
          /\ Len(prev[j].refs) = 2
          /\ Len(file[j].refs) = 1
          /\ LinesOf(prev[j].fn) # {}

====
